---- MODULE Spec2Model ----
(***************************************************************************)
(* Model of the `pkg` package manager (abdelkadouss/pkg): the orchestrator *)
(* loop of src/src/main.rs, the reconciliation function                    *)
(* filter_pkgs_by_statuses, the record store of src/src/db.rs and the      *)
(* result interpretation of BridgeApi::run_operation in src/src/bridge.rs. *)
(*                                                                         *)
(* A package declaration is identified by its name (a number 1..NumPkgs);  *)
(* the record store is the sequence of rows of the `packages` table in     *)
(* rowid order, which is the order in which SELECT returns them.           *)
(* What the environment decides is drawn with \E where the code reads it:  *)
(* the result of each plugin spawn, and whether a filesystem operation or  *)
(* a statement on the record store fails.  Queries of the record store are *)
(* taken to succeed.                                                       *)
(*                                                                         *)
(* Several specifications share the module.  Spec follows one run of main  *)
(* over the bridge groups, with run_operation reduced to its result.       *)
(* InvokeSpec follows BridgeApi::run_operation itself, call after call,    *)
(* through the process environment, the subprocesses it spawns, the log    *)
(* and the disk.  JobSpec follows the loop body of main for one package,   *)
(* statement by statement, over the record store and the managed storage.  *)
(* WorkdirSpec follows the working directories of the subprocesses.        *)
(* ParseSpec, LinkSpec and DiscoverSpec evaluate parse_bridge_output,      *)
(* Fs::link and BridgeApi::load_bridges on their own, on every input of a  *)
(* bounded set.  MainSpec is Spec preceded by the discovery of the bridges *)
(* in BridgeApi::new, and DbSpec applies the operations of the record      *)
(* store of src/src/db.rs to the packages table, column by column.         *)
(* SucceedSpec is Spec restricted to the runs in which nothing fails.      *)
(***************************************************************************)
EXTENDS Integers, Sequences, FiniteSets, TLC

\* ---------------------------------------------------------------- bounds
\* the number of package names that are declared or have a record
NumPkgs == 2

PkgNames == 1..NumPkgs

\* The bridge groups of the input, in declaration order, and one bridge
\* that owns records but is not declared any more.
DeclaredBridges == <<"demo", "nix">>

OrphanBridge == "gone"

NoCode == "none"

None == "none"

\* std::env::var("pkg_path") when the variable is not set
NotSet == <<"unset">>

VARIABLES
    input_bridges,   \* Input.bridges: sequence of [name, pkgs]
    command,         \* cli.command: [kind, update, some, packages]
    db,              \* rows of the packages table, in rowid order
    db0,             \* the rows when the run started
    pc,              \* position of main: bridge | pkg | link | done | exit1 | aborted | panicked
    bi,              \* index of the bridge group being processed
    jobs,            \* the jobs vector of the current bridge
    ji,              \* index into jobs
    pi,              \* index into the package list of the current job
    installed_pkgs_in_input,      \* toUpdate of the current bridge
    not_installed_pkgs_in_input,  \* toInstall of the current bridge
    installed_pkgs_not_in_input,  \* toRemove of the current bridge
    env_pkg_path,    \* the process environment variable pkg_path
    trail,           \* what the last loop body did, statement by statement
    calls,           \* every BridgeApi call of the run so far
    env,             \* the process environment: variable name -> value or NotSet
    disk,            \* the paths that exist on disk
    ipc,             \* position inside run_operation: idle | running | running_install | returned | panicked
    call,            \* the arguments of the run_operation call in progress (or the last one)
    child_env,       \* the environment the subprocesses of the call were spawned with
    steps,           \* what the call did that the outside can see, in order
    result,          \* what the last run_operation call returned
    log_frames,      \* the frames the call appended to the log file of the bridge
    now,             \* the system clock, in nanoseconds since the epoch
    cwd,             \* the current working directory of the process
    spawn_dirs,      \* the working directory of every subprocess spawned so far
    arg,             \* the input of a function evaluated on its own
    ret              \* what that function returned

\* the state of the orchestrator loop of main
mainvars == <<input_bridges, command, db, db0, pc, bi, jobs, ji, pi,
              installed_pkgs_in_input, not_installed_pkgs_in_input,
              installed_pkgs_not_in_input, env_pkg_path, trail, calls>>

\* the state of one BridgeApi::run_operation call, step by step
callvars == <<env, ipc, call, child_env, steps, result, log_frames>>

invokevars == <<callvars, disk>>

\* the working directories of setup_working_directory
dirvars == <<now, cwd, spawn_dirs>>

\* a function of the program evaluated on its own
fnvars == <<arg, ret>>

vars == <<mainvars, invokevars, dirvars, fnvars>>

NoDirs == now = 0 /\ cwd = <<>> /\ spawn_dirs = <<>>

NoFn == arg = <<>> /\ ret = <<>>

\* ------------------------------------------------------------ sequences
Range(s) == {s[i] : i \in 1..Len(s)}

RECURSIVE SeqOfSet(_)
\* the elements of a set of numbers in ascending order
SeqOfSet(S) ==
    IF S = {} THEN <<>>
    ELSE LET m == CHOOSE x \in S : \A y \in S : x <= y
         IN <<m>> \o SeqOfSet(S \ {m})

Reverse(s) == [i \in 1..Len(s) |-> s[Len(s) + 1 - i]]

\* ---------------------------------------------------------- record store
\* Db::get_pkgs: every row, in table order
get_pkgs(d) == d

\* Db::get_pkgs_by_name: the rows whose name is among the given names
get_pkgs_by_name(d, names) == SelectSeq(d, LAMBDA r : r.name \in Range(names))

HasRecord(d, n) == \E i \in 1..Len(d) : d[i].name = n

\* get_pkg_bridge_by_name with the WHERE clause lost: the bridge of the first row
get_pkg_bridge_by_name_first_row(d, n) == d[1].bridge

\* Db::get_pkg_bridge_by_name (called only for names that have a row)
get_pkg_bridge_by_name(d, n) ==
    LET i == CHOOSE k \in 1..Len(d) : d[k].name = n IN d[i].bridge

\* which_pkgs_are_installed with the parameter not bound: a name counts as
\* installed as soon as the table has a row
which_pkgs_are_installed_any_row(d, pkgs) == SelectSeq(pkgs, LAMBDA n : Len(d) > 0)

\* Db::which_pkgs_are_installed: the queried names that have a row, in query order
which_pkgs_are_installed(d, pkgs) == SelectSeq(pkgs, LAMBDA n : HasRecord(d, n))

\* which_pkgs_are_not_installed with the negation lost
which_pkgs_are_not_installed_no_negation(d, pkgs) ==
    SelectSeq(pkgs, LAMBDA n : \E i \in 1..Len(d) : d[i].name = n)

\* Db::which_pkgs_are_not_installed
which_pkgs_are_not_installed(d, pkgs) ==
    LET installed_pkgs == get_pkgs(d)
    IN SelectSeq(pkgs, LAMBDA n :
           ~(\E i \in 1..Len(installed_pkgs) : installed_pkgs[i].name = n))

\* a DELETE without its WHERE clause
remove_pkgs_all_rows(d, names) == IF names = <<>> THEN d ELSE <<>>

\* Db::remove_pkgs: DELETE FROM packages WHERE name = ?, for each name
remove_pkgs(d, names) == SelectSeq(d, LAMBDA r : r.name \notin Range(names))

\* a packages table without the PRIMARY KEY on name
InsertConflicts_no_primary_key(d, pkg) == FALSE

\* Db::install_bridge_pkgs for one package: the INSERT fails on the
\* PRIMARY KEY (name) when a row of that name exists
InsertConflicts(d, pkg) == HasRecord(d, pkg.name)

\* the entry_point column is the path itself for a SingleExecutable
install_bridge_pkgs(d, pkg, bridge) ==
    Append(d, [name |-> pkg.name, version |-> pkg.version, path |-> pkg.path,
               pkg_type |-> pkg.pkg_type,
               entry_point |-> IF pkg.pkg_type = "SingleExecutable" THEN pkg.path
                               ELSE pkg.entry_point,
               bridge |-> bridge])

\* Pkg::to_pkg_declaration_with_empty_attributes: the declaration keeps the name
to_pkg_declaration_with_empty_attributes(r) == r.name

\* -------------------------------------------------------- reconciliation
\* filter_pkgs_by_statuses with toUpdate and toInstall collected by name
\* (sorted) instead of by walking the declarations
filter_pkgs_by_statuses_sorted(d, inputs_pkgs, pkgs_declarations, bridge_name) ==
    [ toUpdate  |-> SeqOfSet(Range(which_pkgs_are_installed(d, inputs_pkgs))),
      toInstall |-> SeqOfSet(Range(which_pkgs_are_not_installed(d, inputs_pkgs))),
      toRemove  |->
         LET kept == SelectSeq(get_pkgs(d), LAMBDA p :
                         /\ p.name \notin Range(inputs_pkgs)
                         /\ get_pkg_bridge_by_name(d, p.name) = bridge_name)
         IN [k \in 1..Len(kept) |-> kept[k].name] ]

\* filter_pkgs_by_statuses(db, inputs_pkgs, pkgs_declarations, bridge_name)
filter_pkgs_by_statuses(d, inputs_pkgs, pkgs_declarations, bridge_name) ==
    LET all_installed_pkgs == get_pkgs(d)
        installed_pkgs_in_input_names == which_pkgs_are_installed(d, inputs_pkgs)
        not_installed_pkgs_in_input_names == which_pkgs_are_not_installed(d, inputs_pkgs)
        not_in_input == SelectSeq(all_installed_pkgs,
                                  LAMBDA p : p.name \notin Range(inputs_pkgs))
        installed_pkgs_not_in_input_names ==
            [k \in 1..Len(not_in_input) |-> not_in_input[k].name]
        owned == SelectSeq(all_installed_pkgs, LAMBDA p :
                     /\ p.name \in Range(installed_pkgs_not_in_input_names)
                     /\ get_pkg_bridge_by_name(d, p.name) = bridge_name)
    IN [ toUpdate  |-> SelectSeq(pkgs_declarations,
                          LAMBDA p : p \in Range(installed_pkgs_in_input_names)),
         toInstall |-> SelectSeq(pkgs_declarations,
                          LAMBDA p : p \in Range(not_installed_pkgs_in_input_names)),
         toRemove  |-> [k \in 1..Len(owned) |->
                          to_pkg_declaration_with_empty_attributes(owned[k])] ]

\* ------------------------------------------------------ bridge protocol
\* What process::Command::output() can give: the spawn fails, or the child
\* ends with an exit code (or none, when a signal killed it), a stderr and
\* a stdout whose first line is a valid `path,version` or is not.  A child
\* that fails still prints a valid first line, the case in which only the
\* exit status tells the failure.
\* A captured stderr is a text: a sequence of pieces, each a word or one
\* white-space character.
Sentinel == <<"__IMPL_DEFAULT">>

Whitespace == {" ", "\n"}

\* str::trim: the text without its leading and trailing white space
trim(text) ==
    LET solid == {i \in 1..Len(text) : text[i] \notin Whitespace}
    IN IF solid = {} THEN <<>>
       ELSE SubSeq(text, CHOOSE i \in solid : \A j \in solid : i <= j,
                         CHOOSE i \in solid : \A j \in solid : j <= i)

SpawnFailed == [spawned |-> FALSE, code |-> NoCode, stderr |-> <<>>, stdout |-> ""]

Outputs ==
    [spawned : {TRUE}, code : {"0", "1", "2", NoCode},
     stderr : {Sentinel, <<"disk", " ", "full">>}, stdout : {"valid"}]
    \cup [spawned : {TRUE}, code : {"0"},
          stderr : {Sentinel, <<"disk", " ", "full">>}, stdout : {"malformed"}]

\* a first line of three fields: `path,version,entry_point`
DirectoryOutputs ==
    [spawned : {TRUE}, code : {"0"},
     stderr : {<<"disk", " ", "full">>}, stdout : {"valid_dir"}]

SpawnResults == {SpawnFailed} \cup Outputs

\* ExitStatus::success()
Success(output) == output.code = "0"

NewVersion == <<"2", "0", "0">>

OldVersion == <<"1", "0", "0">>

WorkPath(bridge_name, name) == <<"work", bridge_name, name>>

TargetPath(bridge_name, name) == <<"target", bridge_name, name>>

\* the Pkg built from a usable first line: `valid` is `path,version` and
\* `valid_dir` is `path,version,entry_point` with the entry point inside path
ParsedPkg(output, bridge_name, name) ==
    [name |-> name, version |-> NewVersion,
     path |-> WorkPath(bridge_name, name),
     pkg_type |-> IF output.stdout = "valid_dir" THEN "Directory" ELSE "SingleExecutable",
     entry_point |-> IF output.stdout = "valid_dir"
                     THEN WorkPath(bridge_name, name) \o <<"bin">>
                     ELSE <<>>]

\* parse_bridge_output without the check of the exit status
parse_bridge_output_no_status_check(output, bridge_name, name) ==
    IF output.stdout \notin {"valid", "valid_dir"}
    THEN [status |-> "Err", error |-> "BridgeWrongOutput"]
    ELSE [status |-> "Ok", pkg |-> ParsedPkg(output, bridge_name, name)]

\* BridgeApi::parse_bridge_output: Err for a failed status, Err for an
\* unusable first line, otherwise the parsed package
parse_bridge_output(output, bridge_name, name) ==
    IF ~Success(output) THEN [status |-> "Err", error |-> "BridgeError"]
    ELSE IF output.stdout \notin {"valid", "valid_dir"}
    THEN [status |-> "Err", error |-> "BridgeWrongOutput"]
    ELSE [status |-> "Ok", pkg |-> ParsedPkg(output, bridge_name, name)]

\* the condition `!success && code().unwrap() == 1 && stderr == "__IMPL_DEFAULT"`:
\* unwrap() panics when the child was killed by a signal
CodeUnwrapPanics(output) == ~Success(output) /\ output.code = NoCode

\* the sentinel test without the trim of stderr
ImplDefault_untrimmed(output) ==
    ~Success(output) /\ output.code = "1" /\ output.stderr = Sentinel

\* bridge.rs 265-271 and 295-301: the plugin asks for the default behaviour
ImplDefault(output) ==
    ~Success(output) /\ output.code = "1" /\ trim(output.stderr) = Sentinel

\* pass_opts_to_env: pkg_path is set only when the package has a record
\* (Update and Remove); nothing unsets it afterwards
EnvAfterPass(op, name, d, envp) ==
    IF op \in {"update", "remove"} /\ HasRecord(d, name)
    THEN get_pkgs_by_name(d, <<name>>)[1].path
    ELSE envp

\* default_impls::remove: std::env::var("pkg_path").unwrap() panics when the
\* variable is not set; the deletion itself can fail
default_impls_remove(envp, rm_fails) ==
    IF envp = NotSet THEN "Panic" ELSE IF rm_fails THEN "Err" ELSE "Ok"

\* BridgeApi::run_operation from the spawn on: `out` is the result of the
\* spawn, `out2` that of the Install re-invoked by the Update fallback
run_operation(bridge_name, name, op, out, out2, rm_fails, d, envp) ==
    LET env1 == EnvAfterPass(op, name, d, envp)
        R(st, e) == [status |-> st, error |-> e, env |-> env1]
        Parsed(o) ==
            LET p == parse_bridge_output(o, bridge_name, name)
            IN IF p.status = "Ok"
               THEN [status |-> "Ok", pkg |-> p.pkg, env |-> env1]
               ELSE R("Err", p.error)
    IN IF ~out.spawned THEN R("Err", "BridgeFailedAtRuntime")
       ELSE IF op = "install" THEN Parsed(out)
       ELSE IF CodeUnwrapPanics(out) THEN R("Panic", "unwrap")
       ELSE IF op = "update" THEN
            IF ImplDefault(out)
            THEN LET rm == default_impls_remove(env1, rm_fails)
                 IN IF rm = "Panic" THEN R("Panic", "unwrap")
                    ELSE IF rm = "Err" THEN R("Err", "IoError")
                    ELSE IF ~out2.spawned THEN R("Err", "IoError")
                    ELSE Parsed(out2)
            ELSE Parsed(out)
       ELSE \* remove
            IF ImplDefault(out)
            THEN LET rm == default_impls_remove(env1, rm_fails)
                 IN IF rm = "Panic" THEN R("Panic", "unwrap")
                    ELSE IF rm = "Err" THEN R("Err", "IoError")
                    ELSE [status |-> "Ok", removed |-> TRUE, env |-> env1]
            ELSE R("Err", "BridgeError")

\* the Update arm that parses the output of the update subprocess even
\* after it re-invoked install
update_output_keeps_first(output, reinstall_output) == output

\* bridge.rs 269-283: the output the Update arm goes on to parse
update_output(output, reinstall_output) ==
    IF ImplDefault(output) THEN reinstall_output ELSE output

\* the inputs run_operation reads beyond the first spawn, given that spawn
SecondSpawns(op, out) ==
    IF op = "update" /\ out.spawned /\ ImplDefault(out) THEN SpawnResults ELSE {out}

RmFailures(op, out) ==
    IF op \in {"update", "remove"} /\ out.spawned /\ ImplDefault(out)
    THEN BOOLEAN ELSE {FALSE}

\* --------------------------------------------------- process environment
\* The environment variables the model follows: the attribute keys that
\* declarations use, and the two names run_operation sets itself.
AttrKeys == {"repo", "jobs", "static"}

EnvNames == AttrKeys \cup {"pkg_path", "pkg_log_file"}

\* input::AttributeValue.  `v` is a number for every type: the index of the
\* string for String, the integer for Integer, 1 or 0 for Boolean and the
\* value in tenths for Float.  Absent stands for a key the HashMap lacks.
Absent == [type |-> "Absent", v |-> 0]

StringTable == <<"https://example.org/x.git">>

AttributeValue(type, v) == [type |-> type, v |-> v]

Digit(d) == <<"0", "1", "2", "3", "4", "5", "6", "7", "8", "9">>[d + 1]

RECURSIVE decimal(_)
\* the decimal digits of a natural number
decimal(n) == IF n < 10 THEN <<Digit(n)>> ELSE decimal(n \div 10) \o <<Digit(n % 10)>>

\* value.to_string() of pass_opts_to_env, as a text
to_string(value) ==
    CASE value.type = "String"  -> <<StringTable[value.v]>>
      [] value.type = "Integer" ->
            IF value.v < 0 THEN <<"-">> \o decimal(0 - value.v) ELSE decimal(value.v)
      [] value.type = "Boolean" -> IF value.v = 1 THEN <<"true">> ELSE <<"false">>
      [] value.type = "Float"   ->
            IF value.v % 10 = 0 THEN decimal(value.v \div 10)
            ELSE decimal(value.v \div 10) \o <<".">> \o decimal(value.v % 10)

\* attributes.keys()
keys(attributes) == {k \in DOMAIN attributes : attributes[k] # Absent}

Attributes(r, j, st) ==
    [k \in AttrKeys |-> CASE k = "repo" -> r [] k = "jobs" -> j [] k = "static" -> st]

\* the attribute maps the declarations of the model carry
AttributeMaps ==
    { Attributes(Absent, Absent, Absent),
      Attributes(AttributeValue("String", 1), AttributeValue("Integer", 12),
                 AttributeValue("Boolean", 1)),
      Attributes(Absent, AttributeValue("Integer", 0 - 3), AttributeValue("Float", 25)) }

\* Option<PathBuf>::None for the pkg_path argument
NoPath == <<>>

\* format!("{}/{}.log", DEFAULT_LOG_DIR, bridge_name)
LogFile(bridge_name) == <<"/var/log/pkg", bridge_name>>

\* pass_opts_to_env without the set_var of pkg_log_file
pass_opts_to_env_no_log_file(e, attributes, pkg_path, log_file) ==
    LET e1 == IF pkg_path # NoPath THEN [e EXCEPT !["pkg_path"] = pkg_path] ELSE e
    IN [k \in EnvNames |->
           IF k \in keys(attributes) THEN to_string(attributes[k]) ELSE e1[k]]

\* BridgeApi::pass_opts_to_env: pkg_path when one is given, then
\* pkg_log_file, then one variable per attribute
pass_opts_to_env(e, attributes, pkg_path, log_file) ==
    LET e1 == IF pkg_path # NoPath THEN [e EXCEPT !["pkg_path"] = pkg_path] ELSE e
        e2 == [e1 EXCEPT !["pkg_log_file"] = log_file]
    IN [k \in EnvNames |->
           IF k \in keys(attributes) THEN to_string(attributes[k]) ELSE e2[k]]

\* clear_env that stops after the first key it removed
clear_env_first_key_only(e, attributes_keys) ==
    IF attributes_keys = {} THEN e
    ELSE [e EXCEPT ![CHOOSE k \in attributes_keys : TRUE] = NotSet]

\* BridgeApi::clear_env: remove_var for each of the given keys
clear_env(e, attributes_keys) ==
    [k \in EnvNames |-> IF k \in attributes_keys THEN NotSet ELSE e[k]]

\* the environment before run_operation was ever called: none of the
\* variables the model follows is set
CleanEnv == [k \in EnvNames |-> NotSet]

\* the result of run_operation as the caller sees it
Returned(status, error, message, pkg) ==
    [status |-> status, error |-> error, message |-> message, pkg |-> pkg]

NoPkg == [name |-> 0, version |-> <<>>, path |-> <<>>, pkg_type |-> "none",
          entry_point |-> <<>>]

\* `parse_bridge_output(output)?` followed by the construction of the Pkg
\* (bridge.rs 255-262 and 285-292)
ParsedResult(output, bridge_name, name) ==
    LET p == parse_bridge_output(output, bridge_name, name)
    IN IF p.status = "Ok" THEN Returned("Ok", "", <<>>, p.pkg)
       ELSE Returned("Err", p.error,
                     IF p.error = "BridgeError" THEN output.stderr ELSE <<>>, NoPkg)

NoCall == [bridge_name |-> "", name |-> 0, operation |-> "none",
           attributes |-> Attributes(Absent, Absent, Absent)]

NoResult == Returned("none", "", <<>>, NoPkg)

\* ----------------------------------------------------------- filesystem
\* the string replace of store_or_overwrite: the entry point of a Directory
\* package follows the package when it lies inside it
relocate(entry_point, old_path, target) ==
    IF Len(entry_point) >= Len(old_path)
       /\ SubSeq(entry_point, 1, Len(old_path)) = old_path
    THEN target \o SubSeq(entry_point, Len(old_path) + 1, Len(entry_point))
    ELSE entry_point

\* store_or_overwrite without the final `pkg.path = target`
stored_pkg_path_not_updated(pkg, bridge_name) == pkg

\* Fs::store_or_overwrite for one package: the Pkg with its new path
stored_pkg(pkg, bridge_name) ==
    LET target == TargetPath(bridge_name, pkg.name)
    IN [pkg EXCEPT !.path = target,
                   !.entry_point = IF pkg.pkg_type = "Directory"
                                   THEN relocate(pkg.entry_point, pkg.path, target)
                                   ELSE pkg.entry_point]

\* Fs::store_or_overwrite: what exists at the target is removed and the
\* artifact is renamed to it
store_or_overwrite(dsk, pkg, bridge_name) ==
    (dsk \ {pkg.path}) \cup {TargetPath(bridge_name, pkg.name)}

\* Fs::remove_pkgs: for each record of the given names, target_dir/<name>
\* is removed when it exists
Fs_remove_pkgs(dsk, d, names) ==
    dsk \ {<<"target", get_pkgs_by_name(d, names)[k].name>> :
               k \in 1..Len(get_pkgs_by_name(d, names))}

\* a default removal that deletes nothing
DefaultRemoved_nothing(op, out, rm_fails, env1) == {}

\* what default_impls::remove deleted during a run_operation call that
\* came to it and did not fail: the path pkg_path named
DefaultRemoved(op, out, rm_fails, env1) ==
    IF /\ out.spawned /\ op \in {"update", "remove"}
       /\ ~CodeUnwrapPanics(out) /\ ImplDefault(out)
       /\ env1 # NotSet /\ ~rm_fails
    THEN {env1} ELSE {}

\* ------------------------------------------------------------ main loop
Commands ==
    [kind : {"Build"}, update : BOOLEAN, some : {FALSE}, packages : {{}}]
    \cup [kind : {"Rebuild"}, update : {FALSE}, some : {FALSE}, packages : {{}}]
    \cup [kind : {"Update"}, update : {FALSE}, some : {FALSE}, packages : {{}}]
    \cup [kind : {"Update"}, update : {FALSE}, some : {TRUE},
          packages : (SUBSET PkgNames) \ {{}}]

\* the jobs vector with Remove pushed before Install
JobsOf_remove_first(cmd) ==
    IF cmd.kind = "Build"
    THEN (IF cmd.update THEN <<"Update">> ELSE <<>>) \o <<"Remove", "Install">>
    ELSE IF cmd.kind = "Rebuild" THEN <<"Remove", "Install", "Reinstall">>
    ELSE <<"Update">>

\* the jobs vector with Reinstall pushed first in Rebuild mode
JobsOf_reinstall_first(cmd) ==
    IF cmd.kind = "Build"
    THEN (IF cmd.update THEN <<"Update">> ELSE <<>>) \o <<"Install", "Remove">>
    ELSE IF cmd.kind = "Rebuild" THEN <<"Reinstall", "Install", "Remove">>
    ELSE <<"Update">>

\* main.rs 163-187: the jobs vector of a bridge
JobsOf(cmd) ==
    IF cmd.kind = "Build"
    THEN (IF cmd.update THEN <<"Update">> ELSE <<>>) \o <<"Install", "Remove">>
    ELSE IF cmd.kind = "Rebuild" THEN <<"Install", "Remove", "Reinstall">>
    ELSE <<"Update">>

\* Update that ignores the packages given on the command line
NarrowToUpdate_ignored(cmd, to_update) == to_update

\* main.rs 175-184: Update with packages given keeps the named ones
NarrowToUpdate(cmd, to_update) ==
    IF cmd.kind = "Update" /\ cmd.some
    THEN SelectSeq(to_update, LAMBDA p : p \in cmd.packages)
    ELSE to_update

\* main.rs 197-202: the package list a job walks
ListOf(job, to_update, to_install, to_remove) ==
    CASE job = "Install" -> to_install
      [] job = "Update" -> to_update
      [] job = "Remove" -> to_remove
      [] job = "Reinstall" -> to_update

\* main.rs 196-208: the next job after position `from` whose list is not
\* empty (0 when there is none)
NextJob(js, from, to_update, to_install, to_remove) ==
    LET later == {j \in (from + 1)..Len(js) :
                     Len(ListOf(js[j], to_update, to_install, to_remove)) > 0}
    IN IF later = {} THEN 0 ELSE CHOOSE j \in later : \A k \in later : j <= k

BridgeName(i) == input_bridges[i].name

CurrentList ==
    ListOf(jobs[ji], installed_pkgs_in_input, not_installed_pkgs_in_input,
           installed_pkgs_not_in_input)

CurrentPkg == CurrentList[pi]

Event(ev, res, code) == [ev |-> ev, res |-> res, code |-> code]

CodeOf(out) == IF out.spawned THEN out.code ELSE "nospawn"

Call(job, op, pkg) == [bridge |-> bi, job |-> job, op |-> op, pkg |-> pkg]

\* the `for bridge in &input.bridges` loop moves on, or ends
EndBridge ==
    /\ IF bi < Len(input_bridges)
       THEN pc' = "bridge" /\ bi' = bi + 1
       ELSE pc' = "link" /\ bi' = bi
    /\ jobs' = <<>> /\ ji' = 0 /\ pi' = 0
    /\ installed_pkgs_in_input' = <<>>
    /\ not_installed_pkgs_in_input' = <<>>
    /\ installed_pkgs_not_in_input' = <<>>

\* the end of one loop body (`continue` or falling through): next package,
\* next job with packages, or next bridge
NextPkg ==
    IF pi < Len(CurrentList)
    THEN /\ pi' = pi + 1
         /\ UNCHANGED <<pc, bi, jobs, ji, installed_pkgs_in_input,
                        not_installed_pkgs_in_input, installed_pkgs_not_in_input>>
    ELSE LET j == NextJob(jobs, ji, installed_pkgs_in_input,
                          not_installed_pkgs_in_input, installed_pkgs_not_in_input)
         IN IF j # 0
            THEN /\ ji' = j /\ pi' = 1
                 /\ UNCHANGED <<pc, bi, jobs, installed_pkgs_in_input,
                                not_installed_pkgs_in_input,
                                installed_pkgs_not_in_input>>
            ELSE EndBridge

\* `return Err(..)` out of main, or a panic
Stop(how) ==
    /\ pc' = how
    /\ UNCHANGED <<bi, jobs, ji, pi, installed_pkgs_in_input,
                   not_installed_pkgs_in_input, installed_pkgs_not_in_input>>

Finish(d, envp, tr, cs, how) ==
    /\ db' = d
    /\ env_pkg_path' = envp
    /\ trail' = tr
    /\ calls' = cs
    /\ IF how = "continue" THEN NextPkg ELSE Stop(how)
    /\ UNCHANGED <<input_bridges, command, db0>>
    /\ UNCHANGED <<invokevars, dirvars, fnvars>>

InitialRow(n, owner) ==
    [name |-> n, version |-> OldVersion, path |-> TargetPath(owner, n),
     pkg_type |-> "SingleExecutable", entry_point |-> TargetPath(owner, n),
     bridge |-> owner]

Init ==
    /\ \E order \in {SeqOfSet(PkgNames), Reverse(SeqOfSet(PkgNames))} :
       \E group \in [PkgNames -> 0..Len(DeclaredBridges)] :
          input_bridges =
              [i \in 1..Len(DeclaredBridges) |->
                  [name |-> DeclaredBridges[i],
                   pkgs |-> SelectSeq(order, LAMBDA n : group[n] = i)]]
    /\ command \in Commands
    /\ \E owner \in [PkgNames -> {None, OrphanBridge} \cup Range(DeclaredBridges)] :
          /\ \A n \in PkgNames : owner[n] = OrphanBridge => n = NumPkgs
          /\ db = LET recorded == SelectSeq(SeqOfSet(PkgNames), LAMBDA n : owner[n] # None)
                 IN [k \in 1..Len(recorded) |-> InitialRow(recorded[k], owner[recorded[k]])]
    /\ db0 = db
    /\ pc = "bridge" /\ bi = 1
    /\ jobs = <<>> /\ ji = 0 /\ pi = 0
    /\ installed_pkgs_in_input = <<>>
    /\ not_installed_pkgs_in_input = <<>>
    /\ installed_pkgs_not_in_input = <<>>
    /\ env_pkg_path = NotSet
    /\ trail = <<>>
    /\ calls = <<>>
    /\ env = CleanEnv /\ disk = {} /\ ipc = "idle" /\ call = NoCall
    /\ child_env = <<>> /\ steps = <<>> /\ result = NoResult
    /\ log_frames = <<>> /\ NoDirs /\ NoFn

\* the reconciliation of every bridge against the rows the run started with
StartBridge_from_first_snapshot ==
    /\ pc = "bridge"
    /\ LET bridge == input_bridges[bi]
           f == filter_pkgs_by_statuses(db0, bridge.pkgs, bridge.pkgs, bridge.name)
           to_update == NarrowToUpdate(command, f.toUpdate)
           js == JobsOf(command)
           j == NextJob(js, 0, to_update, f.toInstall, f.toRemove)
       IN IF j = 0
          THEN EndBridge
          ELSE /\ pc' = "pkg" /\ bi' = bi
               /\ jobs' = js /\ ji' = j /\ pi' = 1
               /\ installed_pkgs_in_input' = to_update
               /\ not_installed_pkgs_in_input' = f.toInstall
               /\ installed_pkgs_not_in_input' = f.toRemove
    /\ trail' = <<>>
    /\ UNCHANGED <<input_bridges, command, db, db0, env_pkg_path, calls>>
    /\ UNCHANGED <<invokevars, dirvars, fnvars>>

\* main.rs 143-208: one bridge group is reconciled against the record store
\* and its jobs are assembled
StartBridge ==
    /\ pc = "bridge"
    /\ LET bridge == input_bridges[bi]
           f == filter_pkgs_by_statuses(db, bridge.pkgs, bridge.pkgs, bridge.name)
           to_update == NarrowToUpdate(command, f.toUpdate)
           js == JobsOf(command)
           j == NextJob(js, 0, to_update, f.toInstall, f.toRemove)
       IN IF j = 0
          THEN EndBridge
          ELSE /\ pc' = "pkg" /\ bi' = bi
               /\ jobs' = js /\ ji' = j /\ pi' = 1
               /\ installed_pkgs_in_input' = to_update
               /\ not_installed_pkgs_in_input' = f.toInstall
               /\ installed_pkgs_not_in_input' = f.toRemove
    /\ trail' = <<>>
    /\ UNCHANGED <<input_bridges, command, db, db0, env_pkg_path, calls>>
    /\ UNCHANGED <<invokevars, dirvars, fnvars>>

Done(tr, msg) == Append(tr, Event("finish", msg, "-"))

\* main.rs 257-319: what the loop body does with the result of an Add action
AddTail(d, envp, job, r, tr, cs) ==
    IF r.status = "Err"
    THEN Finish(d, envp, Done(tr, "at bridge operation"), cs, "continue")
    ELSE \E fs_fails \in BOOLEAN :
        IF fs_fails
        THEN Finish(d, envp,
                    Done(Append(tr, Event("fs.store_or_overwrite", "Err", "-")),
                         "at store the pkg"), cs, "continue")
        ELSE
          LET pkg == stored_pkg(r.pkg, BridgeName(bi))
              tr1 == Append(tr, Event("fs.store_or_overwrite", "Ok", "-"))
          IN \E del_fails \in (IF job = "Update" THEN BOOLEAN ELSE {FALSE}) :
              IF del_fails
              THEN Finish(d, envp,
                          Done(Append(tr1, Event("db.remove_pkgs", "Err", "-")),
                               "at remove pkg from db"), cs, "continue")
              ELSE
                LET d1 == IF job = "Update" THEN remove_pkgs(d, <<pkg.name>>) ELSE d
                    tr2 == IF job = "Update"
                           THEN Append(tr1, Event("db.remove_pkgs", "Ok", "-"))
                           ELSE tr1
                IN \E ins_fails \in (IF InsertConflicts(d1, pkg) THEN {TRUE} ELSE BOOLEAN) :
                    IF ins_fails
                    THEN Finish(d1, envp,
                                Done(Append(tr2, Event("db.install_bridge_pkgs", "Err", "-")),
                                     "at write pkg in db"), cs, "continue")
                    ELSE Finish(install_bridge_pkgs(d1, pkg, BridgeName(bi)), envp,
                                Done(Append(tr2, Event("db.install_bridge_pkgs", "Ok", "-")),
                                     "installed"), cs, "continue")

\* main.rs 257-265 and 320-353: what the loop body does with the result of
\* a Remove action (BridgeApi::remove gives Ok(true) or Err)
RemoveTail(d, envp, name, r, tr, cs) ==
    IF r.status = "Err"
    THEN Finish(d, envp, Done(tr, "at bridge operation"), cs, "continue")
    ELSE \E fs_fails \in BOOLEAN :
        IF fs_fails
        THEN Finish(d, envp,
                    Done(Append(tr, Event("fs.remove_pkgs", "Err", "-")),
                         "at remove the pkg"), cs, "continue")
        ELSE
          LET tr1 == Append(tr, Event("fs.remove_pkgs", "Ok", "-"))
          IN \E del_fails \in BOOLEAN :
              IF del_fails
              THEN Finish(d, envp,
                          Done(Append(tr1, Event("db.remove_pkgs", "Err", "-")),
                               "at remove pkg from db"), cs, "continue")
              ELSE Finish(remove_pkgs(d, <<name>>), envp,
                          Done(Append(tr1, Event("db.remove_pkgs", "Ok", "-")),
                               "removed"), cs, "continue")

\* main.rs 226: Job::Install for one package
InstallJob ==
    /\ pc = "pkg" /\ jobs[ji] = "Install"
    /\ \E out \in SpawnResults :
         LET r == run_operation(BridgeName(bi), CurrentPkg, "install", out, out, FALSE,
                                db, env_pkg_path)
         IN AddTail(db, r.env, "Install", r,
                    <<Event("bridge.install", r.status, CodeOf(out))>>,
                    Append(calls, Call("Install", "install", CurrentPkg)))

\* main.rs 227: Job::Update for one package
UpdateJob ==
    /\ pc = "pkg" /\ jobs[ji] = "Update"
    /\ \E out \in SpawnResults :
       \E out2 \in SecondSpawns("update", out) :
       \E rm_fails \in RmFailures("update", out) :
         LET r == run_operation(BridgeName(bi), CurrentPkg, "update", out, out2, rm_fails,
                                db, env_pkg_path)
             tr == <<Event("bridge.update", r.status, CodeOf(out))>>
             cs == Append(calls, Call("Update", "update", CurrentPkg))
         IN IF r.status = "Panic"
            THEN Finish(db, r.env, tr, cs, "panicked")
            ELSE AddTail(db, r.env, "Update", r, tr, cs)

\* main.rs 228: Job::Remove for one package
RemoveJob ==
    /\ pc = "pkg" /\ jobs[ji] = "Remove"
    /\ \E out \in SpawnResults :
       \E rm_fails \in RmFailures("remove", out) :
         LET r == run_operation(BridgeName(bi), CurrentPkg, "remove", out, out, rm_fails,
                                db, env_pkg_path)
             tr == <<Event("bridge.remove", r.status, CodeOf(out))>>
             cs == Append(calls, Call("Remove", "remove", CurrentPkg))
         IN IF r.status = "Panic"
            THEN Finish(db, r.env, tr, cs, "panicked")
            ELSE RemoveTail(db, r.env, CurrentPkg, r, tr, cs)

\* main.rs 229-254: Job::Reinstall for one package: install, remove, then
\* the deletion of the record, then the Add tail with the install result
ReinstallJob ==
    /\ pc = "pkg" /\ jobs[ji] = "Reinstall"
    /\ \E out \in SpawnResults :
         LET r1 == run_operation(BridgeName(bi), CurrentPkg, "install", out, out, FALSE,
                                 db, env_pkg_path)
             tr1 == <<Event("bridge.install", r1.status, CodeOf(out))>>
             cs1 == Append(calls, Call("Reinstall", "install", CurrentPkg))
         IN IF r1.status = "Err"
            THEN Finish(db, r1.env, Append(tr1, Event("return", "Err", "-")), cs1, "aborted")
            ELSE \E outr \in SpawnResults :
                 \E rm_fails \in RmFailures("remove", outr) :
                   LET r2 == run_operation(BridgeName(bi), CurrentPkg, "remove", outr, outr,
                                           rm_fails, db, r1.env)
                       tr2 == Append(tr1, Event("bridge.remove", r2.status, CodeOf(outr)))
                       cs2 == Append(cs1, Call("Reinstall", "remove", CurrentPkg))
                   IN IF r2.status = "Panic"
                      THEN Finish(db, r2.env, tr2, cs2, "panicked")
                      ELSE IF r2.status = "Err"
                      THEN Finish(db, r2.env, Append(tr2, Event("return", "Err", "-")),
                                  cs2, "aborted")
                      ELSE \E del_fails \in BOOLEAN :
                             IF del_fails
                             THEN AddTail(db, r2.env, "Reinstall", r1,
                                          Done(Append(tr2, Event("db.remove_pkgs", "Err", "-")),
                                               "at remove pkg from db"), cs2)
                             ELSE AddTail(remove_pkgs(db, <<CurrentPkg>>), r2.env,
                                          "Reinstall", r1,
                                          Append(tr2, Event("db.remove_pkgs", "Ok", "-")), cs2)

\* main.rs 373 and 556-567: perform_linking; a failed link ends the process
\* with exit(1)
Link ==
    /\ pc = "link"
    /\ \E link_ok \in BOOLEAN : pc' = IF link_ok THEN "done" ELSE "exit1"
    /\ trail' = <<>>
    /\ UNCHANGED <<input_bridges, command, db, db0, bi, jobs, ji, pi,
                   installed_pkgs_in_input, not_installed_pkgs_in_input,
                   installed_pkgs_not_in_input, env_pkg_path, calls>>
    /\ UNCHANGED <<invokevars, dirvars, fnvars>>

Next ==
    \/ StartBridge
    \/ InstallJob
    \/ UpdateJob
    \/ RemoveJob
    \/ ReinstallJob
    \/ Link

Spec == Init /\ [][Next]_vars

\* ------------------------------------------- one package, statement by
\* statement.  The body of the `for pkg in pkgs` loop of main.rs for one
\* package of one job, each statement a step, over the record store and the
\* disk: the managed copies under the target directory and the artifact a
\* bridge leaves in its working directory.
JobKinds == {"Install", "Update", "Remove", "Reinstall"}

\* what a bridge subprocess can give when its first line may also name an
\* entry point
JobSpawnResults == SpawnResults \cup DirectoryOutputs

JobEvent(ev, res, code, stdout) ==
    [ev |-> ev, res |-> res, code |-> code, stdout |-> stdout]

\* the Result of BridgeApi::install, update or remove, from run_operation's
BridgeResult(op, r) ==
    IF r.status = "Ok"
    THEN Returned("Ok", "", <<>>, IF op = "remove" THEN NoPkg ELSE r.pkg)
    ELSE Returned(r.status, r.error, <<>>, NoPkg)

\* the disk after a call of the bridge: the default removal deleted what
\* pkg_path named, and an output that parsed names an artifact that exists
BridgeDisk(dsk, op, out, rm_fails, r) ==
    (dsk \ DefaultRemoved(op, out, rm_fails, r.env))
    \cup (IF r.status = "Ok" /\ op # "remove" THEN {r.pkg.path} ELSE {})

\* the deletion of default_impls::remove can fail only for a path that exists
RmCanFail(op, name, envp, rm_fails) ==
    rm_fails => EnvAfterPass(op, name, db, envp) \in disk

JobStatics ==
    UNCHANGED <<input_bridges, command, db0, bi, jobs, ji, pi,
                installed_pkgs_in_input, not_installed_pkgs_in_input,
                installed_pkgs_not_in_input, calls,
                env, ipc, call, child_env, steps, log_frames, dirvars, fnvars>>

JobInit ==
    /\ \E job \in JobKinds, name \in PkgNames, b \in 1..Len(DeclaredBridges) :
          /\ input_bridges = <<[name |-> DeclaredBridges[b],
                                pkgs |-> IF job = "Remove" THEN <<>> ELSE <<name>>]>>
          /\ jobs = <<job>>
          /\ installed_pkgs_in_input =
                 IF job \in {"Update", "Reinstall"} THEN <<name>> ELSE <<>>
          /\ not_installed_pkgs_in_input = IF job = "Install" THEN <<name>> ELSE <<>>
          /\ installed_pkgs_not_in_input = IF job = "Remove" THEN <<name>> ELSE <<>>
          /\ \E owner \in [PkgNames -> {None} \cup Range(DeclaredBridges)] :
                /\ job = "Install" => owner[name] = None
                /\ job = "Remove" => owner[name] = DeclaredBridges[b]
                /\ job \in {"Update", "Reinstall"} => owner[name] # None
                /\ db = LET recorded == SelectSeq(SeqOfSet(PkgNames),
                                                  LAMBDA n : owner[n] # None)
                        IN [k \in 1..Len(recorded) |->
                               InitialRow(recorded[k], owner[recorded[k]])]
    /\ command = [kind |-> "none", update |-> FALSE, some |-> FALSE, packages |-> {}]
    /\ db0 = db
    /\ disk \in SUBSET {db[k].path : k \in 1..Len(db)}
    /\ pc = "job" /\ bi = 1 /\ ji = 1 /\ pi = 1
    /\ env_pkg_path = NotSet
    /\ trail = <<>>
    /\ calls = <<>>
    /\ env = CleanEnv /\ ipc = "idle" /\ call = NoCall
    /\ child_env = <<>> /\ steps = <<>> /\ result = NoResult
    /\ log_frames = <<>> /\ NoDirs /\ NoFn

\* main.rs 226: Action::Add(bridge_api.install(..)); for a Reinstall the
\* first statement of its arm (main.rs 230)
JobInstall ==
    /\ pc = "job" /\ jobs[ji] \in {"Install", "Reinstall"}
    /\ \E out \in JobSpawnResults :
         LET r == run_operation(BridgeName(bi), CurrentPkg, "install", out, out, FALSE,
                                db, env_pkg_path)
         IN /\ result' = BridgeResult("install", r)
            /\ disk' = BridgeDisk(disk, "install", out, FALSE, r)
            /\ env_pkg_path' = r.env
            /\ trail' = <<JobEvent("bridge.install", r.status, CodeOf(out), out.stdout)>>
            /\ pc' = IF jobs[ji] = "Install" THEN "action"
                     ELSE IF r.status = "Err" THEN "aborted" ELSE "reinstall_remove"
    /\ UNCHANGED db
    /\ JobStatics

\* main.rs 227: Action::Add(bridge_api.update(..))
JobUpdate ==
    /\ pc = "job" /\ jobs[ji] = "Update"
    /\ \E out \in JobSpawnResults :
       \E out2 \in (IF out.spawned /\ ImplDefault(out) THEN JobSpawnResults ELSE {out}) :
       \E rm_fails \in RmFailures("update", out) :
         /\ RmCanFail("update", CurrentPkg, env_pkg_path, rm_fails)
         /\ LET r == run_operation(BridgeName(bi), CurrentPkg, "update", out, out2,
                                   rm_fails, db, env_pkg_path)
            IN /\ result' = BridgeResult("update", r)
               /\ disk' = BridgeDisk(disk, "update", out, rm_fails, r)
               /\ env_pkg_path' = r.env
               /\ trail' = <<JobEvent("bridge.update", r.status, CodeOf(out),
                                      update_output(out, out2).stdout)>>
               /\ pc' = IF r.status = "Panic" THEN "panicked" ELSE "action"
    /\ UNCHANGED db
    /\ JobStatics

\* main.rs 228: Action::Remove(bridge_api.remove(..)); for a Reinstall the
\* second statement of its arm (main.rs 236-240)
JobRemove ==
    /\ \/ pc = "job" /\ jobs[ji] = "Remove"
       \/ pc = "reinstall_remove"
    /\ \E out \in JobSpawnResults :
       \E rm_fails \in RmFailures("remove", out) :
         /\ RmCanFail("remove", CurrentPkg, env_pkg_path, rm_fails)
         /\ LET r == run_operation(BridgeName(bi), CurrentPkg, "remove", out, out,
                                   rm_fails, db, env_pkg_path)
            IN /\ result' = IF jobs[ji] = "Remove" THEN BridgeResult("remove", r)
                            ELSE result
               /\ disk' = BridgeDisk(disk, "remove", out, rm_fails, r)
               /\ env_pkg_path' = r.env
               /\ trail' = Append(trail, JobEvent("bridge.remove", r.status,
                                                  CodeOf(out), "-"))
               /\ pc' = IF r.status = "Panic" THEN "panicked"
                        ELSE IF jobs[ji] = "Remove" THEN "action"
                        ELSE IF r.status = "Err" THEN "aborted"
                        ELSE "reinstall_delete"
    /\ UNCHANGED db
    /\ JobStatics

\* main.rs 242-251: the Reinstall arm deletes the record; a failure is
\* reported and the arm goes on to Action::Add(install_result)
JobReinstallDelete ==
    /\ pc = "reinstall_delete"
    /\ \E del_fails \in BOOLEAN :
         IF del_fails
         THEN /\ trail' = Append(Append(trail, JobEvent("db.remove_pkgs", "Err", "-", "-")),
                                 JobEvent("finish", "at remove pkg from db", "-", "-"))
              /\ UNCHANGED db
         ELSE /\ trail' = Append(trail, JobEvent("db.remove_pkgs", "Ok", "-", "-"))
              /\ db' = remove_pkgs(db, <<CurrentPkg>>)
    /\ pc' = "action"
    /\ UNCHANGED <<disk, env_pkg_path, result>>
    /\ JobStatics

\* main.rs 257-265: an Err of the action is reported and the loop continues
JobReport ==
    /\ pc = "action" /\ result.status = "Err"
    /\ trail' = Append(trail, JobEvent("finish", "at bridge operation", "-", "-"))
    /\ pc' = "next"
    /\ UNCHANGED <<db, disk, env_pkg_path, result>>
    /\ JobStatics

\* main.rs 268-285 and Fs::store_or_overwrite: the artifact is moved to
\* <target_dir>/<bridge>/<name> after what was there has been removed; the
\* call can fail before or after that removal
JobStore ==
    /\ pc = "action" /\ result.status = "Ok" /\ jobs[ji] # "Remove"
    /\ \E fs_fails \in BOOLEAN :
         IF fs_fails
         THEN /\ disk' \in {disk, disk \ {TargetPath(BridgeName(bi), result.pkg.name)}}
              /\ trail' = Append(Append(trail, JobEvent("fs.store_or_overwrite", "Err",
                                                        "-", "-")),
                                 JobEvent("finish", "at store the pkg", "-", "-"))
              /\ pc' = "next"
              /\ UNCHANGED result
         ELSE /\ disk' = store_or_overwrite(disk, result.pkg, BridgeName(bi))
              /\ result' = [result EXCEPT !.pkg = stored_pkg(result.pkg, BridgeName(bi))]
              /\ trail' = Append(trail, JobEvent("fs.store_or_overwrite", "Ok", "-", "-"))
              /\ pc' = IF jobs[ji] = "Update" THEN "replace" ELSE "insert"
    /\ UNCHANGED <<db, env_pkg_path>>
    /\ JobStatics

\* main.rs 287-300: an Update deletes the prior record before it inserts
JobReplace ==
    /\ pc = "replace"
    /\ \E del_fails \in BOOLEAN :
         IF del_fails
         THEN /\ trail' = Append(Append(trail, JobEvent("db.remove_pkgs", "Err", "-", "-")),
                                 JobEvent("finish", "at remove pkg from db", "-", "-"))
              /\ pc' = "next"
              /\ UNCHANGED db
         ELSE /\ trail' = Append(trail, JobEvent("db.remove_pkgs", "Ok", "-", "-"))
              /\ db' = remove_pkgs(db, <<result.pkg.name>>)
              /\ pc' = "insert"
    /\ UNCHANGED <<disk, env_pkg_path, result>>
    /\ JobStatics

\* main.rs 302-318: the record of the stored package is inserted
JobInsert ==
    /\ pc = "insert"
    /\ \E ins_fails \in (IF InsertConflicts(db, result.pkg) THEN {TRUE} ELSE BOOLEAN) :
         IF ins_fails
         THEN /\ trail' = Append(Append(trail, JobEvent("db.install_bridge_pkgs", "Err",
                                                        "-", "-")),
                                 JobEvent("finish", "at write pkg in db", "-", "-"))
              /\ UNCHANGED db
         ELSE /\ trail' = Append(Append(trail, JobEvent("db.install_bridge_pkgs", "Ok",
                                                        "-", "-")),
                                 JobEvent("finish", "installed", "-", "-"))
              /\ db' = install_bridge_pkgs(db, result.pkg, BridgeName(bi))
    /\ pc' = "next"
    /\ UNCHANGED <<disk, env_pkg_path, result>>
    /\ JobStatics

\* main.rs 320-333: Action::Remove(Ok(true)) goes to Fs::remove_pkgs
JobFsRemove ==
    /\ pc = "action" /\ result.status = "Ok" /\ jobs[ji] = "Remove"
    /\ \E fs_fails \in BOOLEAN :
         IF fs_fails
         THEN /\ trail' = Append(Append(trail, JobEvent("fs.remove_pkgs", "Err", "-", "-")),
                                 JobEvent("finish", "at remove the pkg", "-", "-"))
              /\ pc' = "next"
              /\ UNCHANGED disk
         ELSE /\ trail' = Append(trail, JobEvent("fs.remove_pkgs", "Ok", "-", "-"))
              /\ disk' = Fs_remove_pkgs(disk, db, <<CurrentPkg>>)
              /\ pc' = "db_remove"
    /\ UNCHANGED <<db, env_pkg_path, result>>
    /\ JobStatics

\* main.rs 335-352: then the record is deleted
JobDbRemove ==
    /\ pc = "db_remove"
    /\ \E del_fails \in BOOLEAN :
         IF del_fails
         THEN /\ trail' = Append(Append(trail, JobEvent("db.remove_pkgs", "Err", "-", "-")),
                                 JobEvent("finish", "at remove pkg from db", "-", "-"))
              /\ UNCHANGED db
         ELSE /\ trail' = Append(Append(trail, JobEvent("db.remove_pkgs", "Ok", "-", "-")),
                                 JobEvent("finish", "removed", "-", "-"))
              /\ db' = remove_pkgs(db, <<CurrentPkg>>)
    /\ pc' = "next"
    /\ UNCHANGED <<disk, env_pkg_path, result>>
    /\ JobStatics

JobNext ==
    \/ JobInstall
    \/ JobUpdate
    \/ JobRemove
    \/ JobReinstallDelete
    \/ JobReport
    \/ JobStore
    \/ JobReplace
    \/ JobInsert
    \/ JobFsRemove
    \/ JobDbRemove

JobSpec == JobInit /\ [][JobNext]_vars

\* ------------------------------------------- run_operation, step by step
\* The same BridgeApi::run_operation, followed through its steps on the
\* process environment and the disk: the caller may call it for any bridge,
\* package and operation, one call after the other.
Operations == {"install", "update", "remove"}

\* the `?` returns of run_operation before the environment is touched
\* (bridge.rs 185, 195-198 and 205)
EarlyFailures(operation) ==
    {"none", "IoError", "BridgeFailedToCreateLogFile"}
        \cup (IF operation = "install" THEN {} ELSE {"DbError"})

\* what the first subprocess of a call can give
Stderrs ==
    { Sentinel, <<" ", "__IMPL_DEFAULT", "\n">>,
      <<"error:", " ", "__IMPL_DEFAULT">>, <<"disk", " ", "full", "\n">> }

ChildResults ==
    {SpawnFailed}
        \cup [spawned : {TRUE}, code : {"0", "1", "2", NoCode},
              stderr : Stderrs, stdout : {"valid"}]
        \cup [spawned : {TRUE}, code : {"0"}, stderr : Stderrs, stdout : {"malformed"}]

\* one step of a call: the spawn of a subprocess with its command line, the
\* end of a subprocess with its output, the default removal with the path it
\* read from pkg_path and whether that path existed, or the failure of the log
Step(ev, args, path, existed, out) ==
    [ev |-> ev, args |-> args, path |-> path, existed |-> existed, out |-> out]

\* process::Command::new(bridge_entry_point).arg(operation).arg(input)
Spawned(bridge_name, operation, input) ==
    Step("spawn", <<bridge_name, operation, input>>, NoPath, FALSE, SpawnFailed)

Exited(out) == Step("exit", <<>>, NoPath, FALSE, out)

\* BridgeApi::remove: Ok(res.is_none()) of what run_operation returned
remove(res) == [status |-> res.status, removed |-> res.pkg = NoPkg]

InvokeInit ==
    /\ input_bridges = <<>>
    /\ command = [kind |-> "none", update |-> FALSE, some |-> FALSE, packages |-> {}]
    /\ \E recorded \in 0..NumPkgs :
          db = [k \in 1..recorded |-> InitialRow(k, DeclaredBridges[1])]
    /\ db0 = db
    /\ pc = "api" /\ bi = 0
    /\ jobs = <<>> /\ ji = 0 /\ pi = 0
    /\ installed_pkgs_in_input = <<>>
    /\ not_installed_pkgs_in_input = <<>>
    /\ installed_pkgs_not_in_input = <<>>
    /\ env_pkg_path = NotSet
    /\ trail = <<>>
    /\ calls = <<>>
    /\ env = CleanEnv
    /\ disk \in SUBSET {db[k].path : k \in 1..Len(db)}
    /\ ipc = "idle" /\ call = NoCall
    /\ child_env = <<>> /\ steps = <<>> /\ result = NoResult
    /\ log_frames = <<>> /\ NoDirs /\ NoFn

Return(res) == ipc' = "returned" /\ result' = res

\* bridge.rs 230-248: the frame of the package, with the captured stdout and
\* stderr, is written only `if let Ok(output) = &bridge_output`
Frame(name, out) == [name |-> name, stdout |-> out.stdout, stderr |-> out.stderr]

LogAfter(frames, name, out) ==
    IF out.spawned THEN Append(frames, Frame(name, out)) ELSE frames

\* bridge.rs 172-219: run_operation up to the spawn of the subprocess
RunOperation ==
    /\ ipc \in {"idle", "returned"}
    /\ \E bridge_name \in Range(DeclaredBridges) :
       \E name \in PkgNames :
       \E operation \in Operations :
       \E attributes \in AttributeMaps :
       \E early \in EarlyFailures(operation) :
          /\ call' = [bridge_name |-> bridge_name, name |-> name,
                      operation |-> operation, attributes |-> attributes]
          /\ log_frames' = <<>>
          /\ IF early # "none"
             THEN /\ Return(Returned("Err", early, <<>>, NoPkg))
                  /\ child_env' = <<>> /\ steps' = <<>>
                  /\ UNCHANGED env
             ELSE LET pkg_path ==
                          IF operation \in {"update", "remove"} /\ HasRecord(db, name)
                          THEN get_pkgs_by_name(db, <<name>>)[1].path
                          ELSE NoPath
                  IN /\ env' = pass_opts_to_env(env, attributes, pkg_path,
                                                LogFile(bridge_name))
                     /\ child_env' = <<env'>>
                     /\ steps' = <<Spawned(bridge_name, operation, name)>>
                     /\ ipc' = "running"
                     /\ result' = NoResult
    /\ UNCHANGED disk
    /\ UNCHANGED <<mainvars, dirvars, fnvars>>

\* bridge.rs 219-316: the subprocess has ended; clear_env, the log, and the
\* interpretation of the output up to the return or to the spawn of the
\* install subprocess of the Update fallback
ChildExits ==
    /\ ipc = "running"
    /\ env' = clear_env(env, keys(call.attributes))
    /\ \/ \* the log file cannot be opened or written (bridge.rs 223-248)
          /\ Return(Returned("Err", "BridgeFailedToOpenLogFile", <<>>, NoPkg))
          /\ steps' = Append(steps, Step("log", <<>>, NoPath, FALSE, SpawnFailed))
          /\ UNCHANGED <<disk, child_env, log_frames>>
       \/ \E out \in ChildResults :
          \E rm_fails \in RmFailures(call.operation, out) :
           /\ log_frames' = LogAfter(log_frames, call.name, out)
           /\
             \* bridge.rs 250-316: the match on the output
             LET pkg_path == env'["pkg_path"]
                 st == Append(steps, Exited(out))
                 Plain(res) == /\ Return(res) /\ steps' = st
                               /\ UNCHANGED <<disk, child_env>>
                 Panic == /\ ipc' = "panicked" /\ steps' = st
                          /\ UNCHANGED <<disk, child_env, result>>
             IN IF ~out.spawned
                THEN Plain(Returned("Err", "BridgeFailedAtRuntime", <<>>, NoPkg))
                ELSE IF call.operation = "install"
                THEN Plain(ParsedResult(out, call.bridge_name, call.name))
                ELSE IF CodeUnwrapPanics(out)
                THEN Panic
                ELSE IF ~ImplDefault(out)
                THEN IF call.operation = "update"
                     THEN Plain(ParsedResult(out, call.bridge_name, call.name))
                     ELSE Plain(Returned("Err", "BridgeError", trim(out.stderr), NoPkg))
                ELSE \* default_impls::remove()
                     IF default_impls_remove(pkg_path, FALSE) = "Panic"
                     THEN Panic
                     ELSE IF pkg_path \in disk /\ rm_fails
                     THEN Plain(Returned("Err", "IoError", <<>>, NoPkg))
                     ELSE LET st1 == Append(st, Step("default_impls::remove", <<>>, pkg_path,
                                                     pkg_path \in disk, SpawnFailed))
                          IN /\ disk' = disk \ {pkg_path}
                             /\ IF call.operation = "remove"
                                THEN /\ Return(Returned("Ok", "", <<>>, NoPkg))
                                     /\ steps' = st1
                                     /\ UNCHANGED child_env
                                ELSE /\ ipc' = "running_install"
                                     /\ steps' = Append(st1, Spawned(call.bridge_name, "install",
                                                                  call.name))
                                     /\ child_env' = Append(child_env, env')
                                     /\ UNCHANGED result
    /\ UNCHANGED call
    /\ UNCHANGED <<mainvars, dirvars, fnvars>>

\* bridge.rs 275-292: the install subprocess of the Update fallback has ended
ReinstallExits ==
    /\ ipc = "running_install"
    /\ \E out2 \in SpawnResults :
          /\ steps' = Append(steps, Exited(out2))
          /\ IF ~out2.spawned
             THEN Return(Returned("Err", "IoError", <<>>, NoPkg))
             ELSE Return(ParsedResult(update_output(steps[2].out, out2),
                                      call.bridge_name, call.name))
    /\ UNCHANGED <<env, disk, call, child_env, log_frames>>
    /\ UNCHANGED <<mainvars, dirvars, fnvars>>

InvokeNext ==
    \/ RunOperation
    \/ ChildExits
    \/ ReinstallExits

InvokeSpec == InvokeInit /\ [][InvokeNext]_vars

\* the orchestrator loop is not running
NoMain ==
    /\ input_bridges = <<>>
    /\ command = [kind |-> "none", update |-> FALSE, some |-> FALSE, packages |-> {}]
    /\ db = <<>> /\ db0 = <<>>
    /\ pc = "api" /\ bi = 0
    /\ jobs = <<>> /\ ji = 0 /\ pi = 0
    /\ installed_pkgs_in_input = <<>>
    /\ not_installed_pkgs_in_input = <<>>
    /\ installed_pkgs_not_in_input = <<>>
    /\ env_pkg_path = NotSet
    /\ trail = <<>>
    /\ calls = <<>>

\* no run_operation call is followed
NoInvoke ==
    /\ env = CleanEnv /\ ipc = "idle" /\ call = NoCall
    /\ child_env = <<>> /\ steps = <<>> /\ result = NoResult
    /\ log_frames = <<>>

\* ------------------------------------------------ working directories
\* The calls of run_operation of one run, reduced to the working directory
\* each subprocess runs in: setup_working_directory, the spawn, and the
\* spawn of install by the Update fallback.
MaxClock == 1

MaxSpawns == 3

\* <DEFAULT_WORKING_DIR>/<bridge_name>/<pkg_name>/<timestamp>
WorkDir(bridge_name, pkg_name, timestamp) ==
    <<"/var/tmp/pkg", bridge_name, pkg_name, timestamp>>

WorkdirInit ==
    /\ NoMain
    /\ NoInvoke
    /\ disk = {}
    /\ now = 0 /\ cwd = <<"/">> /\ spawn_dirs = <<>>
    /\ NoFn

WorkdirStatics ==
    UNCHANGED <<mainvars, env, child_env, steps, result, log_frames, fnvars>>

\* SystemTime::now() is the wall clock: it moves on, and it can be set back
ClockChanges ==
    /\ \E t \in 0..MaxClock : t # now /\ now' = t
    /\ UNCHANGED <<disk, ipc, call, cwd, spawn_dirs>>
    /\ WorkdirStatics

\* bridge.rs 185 and 564-591: the loop leaves with the first timestamp whose
\* directory does not exist; create_dir_all or set_current_dir can fail, and
\* then run_operation returns
setup_working_directory ==
    /\ ipc = "idle" /\ Len(spawn_dirs) < MaxSpawns
    /\ \E bridge_name \in Range(DeclaredBridges) :
       \E name \in PkgNames :
       \E operation \in Operations :
       \E io_fails \in BOOLEAN :
          LET tmp_dir == WorkDir(bridge_name, name, now)
          IN /\ tmp_dir \notin disk
             /\ call' = [bridge_name |-> bridge_name, name |-> name,
                         operation |-> operation,
                         attributes |-> Attributes(Absent, Absent, Absent)]
             /\ IF io_fails
                THEN UNCHANGED <<disk, cwd, ipc>>
                ELSE /\ disk' = disk \cup {tmp_dir}
                     /\ cwd' = tmp_dir
                     /\ ipc' = "setup"
    /\ UNCHANGED <<now, spawn_dirs>>
    /\ WorkdirStatics

\* bridge.rs 215-219: the subprocess is spawned in the current directory
SpawnInWorkdir ==
    /\ ipc = "setup"
    /\ spawn_dirs' = Append(spawn_dirs, cwd)
    /\ ipc' = "running"
    /\ UNCHANGED <<now, disk, call, cwd>>
    /\ WorkdirStatics

\* bridge.rs 250-316: the subprocess ended; an Update that is answered with
\* the sentinel spawns install with a plain process::Command (bridge.rs
\* 275-278), the other calls return
ExitInWorkdir ==
    /\ ipc = "running"
    /\ \E default \in (IF call.operation = "update" THEN BOOLEAN ELSE {FALSE}) :
         IF default
         THEN /\ spawn_dirs' = Append(spawn_dirs, cwd)
              /\ ipc' = "running_install"
         ELSE /\ ipc' = "idle"
              /\ UNCHANGED spawn_dirs
    /\ UNCHANGED <<now, disk, call, cwd>>
    /\ WorkdirStatics

\* bridge.rs 280-292: the install subprocess ended and the call returns
InstallExitsInWorkdir ==
    /\ ipc = "running_install"
    /\ ipc' = "idle"
    /\ UNCHANGED <<now, disk, call, cwd, spawn_dirs>>
    /\ WorkdirStatics

WorkdirNext ==
    \/ ClockChanges
    \/ setup_working_directory
    \/ SpawnInWorkdir
    \/ ExitInWorkdir
    \/ InstallExitsInWorkdir

WorkdirSpec == WorkdirInit /\ [][WorkdirNext]_vars

\* nothing but the function under evaluation
FnStatics == UNCHANGED <<mainvars, invokevars, dirvars, arg>>

NoReturn == [status |-> "none"]

\* --------------------------------------------------- the first line
\* parse_bridge_output on the text of stdout.  A line is a sequence of
\* characters: `,` and `.` are the two separators and `1` stands for any
\* other character of a path or a version.
MaxLineLen == 9

LineChars == {"1", ",", "."}

Lines == UNION {[1..k -> LineChars] : k \in 0..MaxLineLen}

RECURSIVE split(_, _)
\* str::split(sep): the pieces between the separators, empty ones included
split(text, sep) ==
    LET at == {i \in 1..Len(text) : text[i] = sep}
    IN IF at = {} THEN <<text>>
       ELSE LET i == CHOOSE k \in at : \A j \in at : k <= j
            IN <<SubSeq(text, 1, i - 1)>> \o split(SubSeq(text, i + 1, Len(text)), sep)

\* a field count test that lets a line of four fields through
WrongFieldCount_fewer_than_two(n) == n < 2

\* bridge.rs 381: split.len() > 3 || split.len() < 2
WrongFieldCount(n) == n > 3 \/ n < 2

\* bridge.rs 406-423: a relative path is joined to the current directory
\* (every path written with the characters of a line is relative)
Joined(path) == <<"pwd", "/">> \o path

ParseError(error) ==
    [status |-> "Err", error |-> error, version |-> <<>>, pkg_path |-> <<>>,
     pkg_type |-> "none", entry_point |-> <<>>]

\* BridgeApi::parse_bridge_output: `o` has the exit status, the lines of
\* stdout, and whether the two paths the line names exist
parse_bridge_output_text(o) ==
    IF ~o.success THEN ParseError("BridgeError")
    ELSE IF o.stdout = <<>> THEN ParseError("IoError")
    ELSE LET first_line == trim(o.stdout[1])
             fields == split(first_line, ",")
         IN IF WrongFieldCount(Len(fields)) THEN ParseError("BridgeWrongOutput")
            ELSE LET version_split == split(fields[2], ".")
                     pkg_type == IF Len(fields) = 3 THEN "Directory"
                                 ELSE "SingleExecutable"
                 IN IF Len(version_split) # 3
                    THEN ParseError("BridgeWrongVersionFormat")
                    ELSE IF ~o.path_exists THEN ParseError("BridgeNotValid")
                    ELSE IF pkg_type = "Directory" /\ ~o.entry_exists
                    THEN ParseError("BridgeNotValidEntryPoint")
                    ELSE [status |-> "Ok", error |-> "",
                          version |-> version_split,
                          pkg_path |-> Joined(fields[1]),
                          pkg_type |-> pkg_type,
                          entry_point |-> IF pkg_type = "Directory"
                                          THEN Joined(fields[3]) ELSE <<>>]

\* the outputs of a subprocess: it succeeded or not, stdout is empty or has
\* a first line, written with or without white space around it
ParseInit ==
    /\ NoMain /\ NoInvoke /\ disk = {} /\ NoDirs
    /\ \E success \in BOOLEAN, padded \in BOOLEAN, exist \in 0..2 :
       \E stdout \in {<<>>} \cup {<<l>> : l \in Lines} :
          arg = [success |-> success,
                 stdout |-> IF stdout # <<>> /\ padded
                            THEN <<(<<" ">> \o stdout[1]) \o <<" ">>>>
                            ELSE stdout,
                 path_exists |-> exist >= 1,
                 entry_exists |-> exist = 2]
    /\ ret = NoReturn

ParseBridgeOutput ==
    /\ ret.status = "none"
    /\ ret' = parse_bridge_output_text(arg)
    /\ FnStatics

ParseNext == ParseBridgeOutput

ParseSpec == ParseInit /\ [][ParseNext]_vars

\* ------------------------------------------------------ the link farm
\* Fs::link on the load path (absent, a file or a directory), the links the
\* load path holds and the rows of the record store.
LinkRow(n, pkg_type) ==
    [name |-> n, version |-> OldVersion,
     path |-> TargetPath(DeclaredBridges[1], n),
     pkg_type |-> pkg_type,
     entry_point |-> IF pkg_type = "Directory"
                     THEN TargetPath(DeclaredBridges[1], n) \o <<"bin">>
                     ELSE TargetPath(DeclaredBridges[1], n),
     bridge |-> DeclaredBridges[1]]

\* fs.rs 59-66: what the link of a row points to
LinkTarget(r) == IF r.pkg_type = "SingleExecutable" THEN r.path ELSE r.entry_point

\* fs.rs 52-67: every row's link replaces what is at <load_path>/<name>
Relinked(links, rows) ==
    {l \in links : ~HasRecord(rows, l[1])}
    \cup {<<rows[k].name, LinkTarget(rows[k])>> : k \in 1..Len(rows)}

\* Fs::link: `a` has the kind of the load path, the links in it, the rows,
\* and whether remove_dir_all accepts a path that is a file
link(a) ==
    IF a.load_path = "absent"
    THEN [status |-> "Ok", error |-> "", links |-> Relinked({}, a.rows)]
    ELSE IF a.load_path # "dir"
    THEN IF a.remove_dir_all_ok
         THEN [status |-> "Ok", error |-> "", links |-> Relinked({}, a.rows)]
         ELSE [status |-> "Err", error |-> "IoError", links |-> {}]
    ELSE [status |-> "Err", error |-> "LoadPathIsFile", links |-> a.links]

LinkInit ==
    /\ NoMain /\ NoInvoke /\ disk = {} /\ NoDirs
    /\ \E load_path \in {"absent", "file", "dir"} :
       \E types \in [PkgNames -> {"none", "SingleExecutable", "Directory"}] :
       \E linked \in SUBSET PkgNames :
       \E remove_dir_all_ok \in BOOLEAN :
          /\ load_path # "dir" => linked = {}
          /\ arg = [load_path |-> load_path,
                    links |-> {<<n, TargetPath(DeclaredBridges[1], n)>> : n \in linked},
                    rows |-> LET recorded == SelectSeq(SeqOfSet(PkgNames),
                                                       LAMBDA n : types[n] # "none")
                             IN [k \in 1..Len(recorded) |->
                                    LinkRow(recorded[k], types[recorded[k]])],
                    remove_dir_all_ok |-> remove_dir_all_ok]
    /\ ret = NoReturn

FsLink ==
    /\ ret.status = "none"
    /\ ret' = link(arg)
    /\ FnStatics

LinkNext == FsLink

LinkSpec == LinkInit /\ [][LinkNext]_vars

\* --------------------------------------------------- bridge discovery
\* BridgeApi::load_bridges on the content of the bridge set directory.  An
\* entry is a subdirectory with its name (stem and extension) and what its
\* `run` is: missing, a directory, or a file with or without an executable
\* permission bit.
Extensions == {"", ".bak"}

RunKinds == {"missing", "dir", "executable", "not_executable"}

DirEntry(stem, ext, run) == [stem |-> stem, ext |-> ext, run |-> run]

\* the file name of an entry
FileName(e) == <<e.stem, e.ext>>

\* Path::file_stem: the file name without its extension
file_stem(e) == e.stem

\* bridge.rs 471-476: the bridge name of a directory of the bridge set
bridge_name_of(e) == file_stem(e)

Loaded(status, error, path, bridges) ==
    [status |-> status, error |-> error, path |-> path, bridges |-> bridges]

RECURSIVE load_bridges_from(_, _, _)
\* bridge.rs 464-494: the `for file in content` loop from position k on
load_bridges_from(content, needed_bridges, bridges) ==
    IF content = <<>> THEN Loaded("Ok", "", <<>>, bridges)
    ELSE LET file == Head(content)
             rest == Tail(content)
         IN IF bridge_name_of(file) \notin Range(needed_bridges)
            THEN load_bridges_from(rest, needed_bridges, bridges)
            ELSE IF file.run \in {"missing", "dir"}
            THEN load_bridges_from(rest, needed_bridges, bridges)
            ELSE IF file.run = "not_executable"
            THEN Loaded("Err", "BridgeEntryPointNotExecutable",
                        FileName(file) \o <<"run">>, <<>>)
            ELSE load_bridges_from(rest, needed_bridges,
                     Append(bridges, [name |-> bridge_name_of(file),
                                      entry_point |-> FileName(file) \o <<"run">>]))

\* BridgeApi::load_bridges for an existing bridge set directory read in the
\* order `content`
load_bridges(content, needed_bridges) ==
    LET r == load_bridges_from(content, needed_bridges, <<>>)
        missing_bridges ==
            SelectSeq(needed_bridges,
                      LAMBDA b : ~(\E k \in 1..Len(r.bridges) : r.bridges[k].name = b))
    IN IF r.status = "Err" THEN r
       ELSE IF missing_bridges # <<>>
       THEN Loaded("Err", "BridgeNotFound", <<missing_bridges[1]>>, <<>>)
       ELSE r

\* the orders read_dir can give the entries in
Orders(S) == {o \in [1..Cardinality(S) -> S] : Range(o) = S}

DiscoverInit ==
    /\ NoMain /\ NoInvoke /\ disk = {} /\ NoDirs
    /\ \E needed_bridges \in {<<>>, <<"demo">>, <<"nix">>, <<"demo", "nix">>} :
       \E runs \in [Range(DeclaredBridges) \X Extensions -> RunKinds \cup {"no such directory"}] :
          LET entries == {DirEntry(d[1], d[2], runs[d]) :
                             d \in {x \in DOMAIN runs : runs[x] # "no such directory"}}
          IN \E content \in Orders(entries) :
                arg = [needed_bridges |-> needed_bridges, content |-> content]
    /\ ret = NoReturn

LoadBridges ==
    /\ ret.status = "none"
    /\ ret' = load_bridges(arg.content, arg.needed_bridges)
    /\ FnStatics

DiscoverNext == LoadBridges

DiscoverSpec == DiscoverInit /\ [][DiscoverNext]_vars

\* ------------------------------------------------ main, from its start
\* main.rs 45-57 followed by the loop of Spec: the record store is opened,
\* the input is loaded, BridgeApi::new discovers the bridges of the input
\* in the bridge set directory, and only then the bridge groups are
\* processed.  Opening the store and loading the input are taken to succeed.
\* The declarations are listed in ascending order and the Update command
\* names no package.
SetPaths == {"missing", "file", "dir"}

\* bridge.rs 449-457 before the scan: the bridge set path must exist and
\* be a directory
load_bridges_at(bridge_set_path, content, needed_bridges) ==
    IF bridge_set_path = "missing"
    THEN Loaded("Err", "BridgeSetNotFound", <<>>, <<>>)
    ELSE IF bridge_set_path = "file"
    THEN Loaded("Err", "BridgeSetPathAreNotADirectory", <<>>, <<>>)
    ELSE load_bridges(content, needed_bridges)

\* main.rs 49-53: the needed bridges are the names of the bridge groups
needed_bridges_of(input) == [i \in 1..Len(input) |-> input[i].name]

\* a `?` that lets main go on after an error
AfterNew_error_ignored(r) == "bridge"

\* main.rs 55: the `?` on BridgeApi::new returns the error out of main
AfterNew(r) == IF r.status = "Ok" THEN "bridge" ELSE "discovery_failed"

MainInit ==
    /\ \E group \in [PkgNames -> 0..Len(DeclaredBridges)] :
          input_bridges =
              [i \in 1..Len(DeclaredBridges) |->
                  [name |-> DeclaredBridges[i],
                   pkgs |-> SelectSeq(SeqOfSet(PkgNames), LAMBDA n : group[n] = i)]]
    /\ command \in {c \in Commands : ~c.some}
    /\ \E owner \in [PkgNames -> {None, OrphanBridge} \cup Range(DeclaredBridges)] :
          /\ \A n \in PkgNames : owner[n] = OrphanBridge => n = NumPkgs
          /\ db = LET recorded == SelectSeq(SeqOfSet(PkgNames), LAMBDA n : owner[n] # None)
                 IN [k \in 1..Len(recorded) |-> InitialRow(recorded[k], owner[recorded[k]])]
    /\ db0 = db
    /\ pc = "start" /\ bi = 1
    /\ jobs = <<>> /\ ji = 0 /\ pi = 0
    /\ installed_pkgs_in_input = <<>>
    /\ not_installed_pkgs_in_input = <<>>
    /\ installed_pkgs_not_in_input = <<>>
    /\ env_pkg_path = NotSet
    /\ trail = <<>>
    /\ calls = <<>>
    /\ NoInvoke /\ disk = {} /\ NoDirs
    /\ \E bridge_set_path \in SetPaths :
       \E runs \in [Range(DeclaredBridges) -> RunKinds \cup {"no such directory"}] :
          LET names == {b \in Range(DeclaredBridges) : runs[b] # "no such directory"}
              entries == [b \in names |-> DirEntry(b, "", runs[b])]
              content == SelectSeq([i \in 1..Len(DeclaredBridges) |-> DeclaredBridges[i]],
                                   LAMBDA b : b \in names)
          IN /\ bridge_set_path # "dir" => names = {}
             /\ arg = [bridge_set_path |-> bridge_set_path,
                       content |-> [k \in 1..Len(content) |-> entries[content[k]]]]
    /\ ret = NoReturn

\* main.rs 55: BridgeApi::new
NewBridgeApi ==
    /\ pc = "start"
    /\ ret' = load_bridges_at(arg.bridge_set_path, arg.content,
                              needed_bridges_of(input_bridges))
    /\ pc' = AfterNew(ret')
    /\ UNCHANGED <<input_bridges, command, db, db0, bi, jobs, ji, pi,
                   installed_pkgs_in_input, not_installed_pkgs_in_input,
                   installed_pkgs_not_in_input, env_pkg_path, trail, calls>>
    /\ UNCHANGED <<invokevars, dirvars, arg>>

MainNext ==
    \/ NewBridgeApi
    \/ StartBridge
    \/ InstallJob
    \/ UpdateJob
    \/ RemoveJob
    \/ ReinstallJob
    \/ Link

MainSpec == MainInit /\ [][MainNext]_vars

\* ------------------------------------------------- the record store
\* The operations of src/src/db.rs on the packages table, column by
\* column: a row holds the texts install_bridge_pkgs binds to the INSERT,
\* and get_pkgs_by_name builds a Pkg back from the columns it selects.  A
\* text is a sequence of characters; a path (always valid UTF-8 here) is its
\* own text.
DbBridges == {"demo", "nix"}

\* version cells as parse_bridge_output gives them: texts without a dot,
\* possibly empty or of several characters
PlainVersion == << <<"1">>, <<"0">>, <<"0">> >>

UnevenVersion == << <<"1", "0">>, <<>>, <<"2">> >>

SingleExecutable == [kind |-> "SingleExecutable", ep |-> <<>>]

Directory(ep) == [kind |-> "Directory", ep |-> ep]

\* the Pkg values handed to the record store: for each name a single
\* executable and a directory with its entry point
DbPkgs ==
    UNION {{[name |-> n, version |-> PlainVersion, path |-> TargetPath("demo", n),
             pkg_type |-> SingleExecutable],
            [name |-> n, version |-> UnevenVersion, path |-> TargetPath("demo", n),
             pkg_type |-> Directory(TargetPath("demo", n) \o <<"bin">>)]} :
           n \in PkgNames}

\* a format! that writes the cells without the dots between them
version_text_no_dots(version) == (version[1] \o version[2]) \o version[3]

\* db.rs 174-177: format!("{}.{}.{}", first_cell, second_cell, third_cell)
version_text(version) ==
    (((version[1] \o <<".">>) \o version[2]) \o <<".">>) \o version[3]

\* db.rs 179-199: the six values bound to the INSERT
row_of(pkg, bridge) ==
    [name |-> pkg.name,
     version |-> version_text(pkg.version),
     path |-> pkg.path,
     pkg_type |-> pkg.pkg_type.kind,
     entry_point |-> IF pkg.pkg_type.kind = "SingleExecutable" THEN pkg.path
                     ELSE pkg.pkg_type.ep,
     bridge |-> bridge]

\* an INSERT OR REPLACE in place of the INSERT
execute_insert_or_replace(d, row) ==
    [status |-> "Ok",
     db |-> Append(SelectSeq(d, LAMBDA r : r.name # row.name), row)]

\* db.rs 191-199: stmt.execute of INSERT_PKGS; the PRIMARY KEY (name) of
\* db.rs 57-66 rejects a second row of a name
execute_insert(d, row) ==
    IF InsertConflicts(d, row) THEN [status |-> "Err", db |-> d]
    ELSE [status |-> "Ok", db |-> Append(d, row)]

RECURSIVE install_bridge_pkgs_loop(_, _, _, _)
\* Db::install_bridge_pkgs: the `for pkg in pkgs` loop; the statement number
\* fails_at fails for a reason of its own (0: none does), and a failed
\* statement returns at once, the rows inserted before it staying
install_bridge_pkgs_loop(d, pkgs, bridge, fails_at) ==
    IF pkgs = <<>> THEN [status |-> "Ok", db |-> d]
    ELSE IF fails_at = 1 THEN [status |-> "Err", db |-> d]
    ELSE LET e == execute_insert(d, row_of(Head(pkgs), bridge))
         IN IF e.status = "Err" THEN e
            ELSE install_bridge_pkgs_loop(e.db, Tail(pkgs), bridge, fails_at - 1)

\* db.rs 288-309: the Pkg of a row, or the error of a row that does not parse
pkg_of(row) ==
    LET version_parts == split(row.version, ".")
    IN IF Len(version_parts) # 3 THEN [status |-> "Err"]
       ELSE IF row.pkg_type \notin {"SingleExecutable", "Directory"}
       THEN [status |-> "Err"]
       ELSE [status |-> "Ok",
             pkg |-> [name |-> row.name,
                      version |-> <<version_parts[1], version_parts[2], version_parts[3]>>,
                      path |-> row.path,
                      pkg_type |-> IF row.pkg_type = "SingleExecutable"
                                   THEN SingleExecutable
                                   ELSE Directory(row.entry_point)]]

DbReturn(status, pkgs) == [status |-> status, pkgs |-> pkgs]

\* Db::get_pkgs_by_name: the selected rows as Pkg values, or an error when
\* one of them does not parse
get_pkgs_by_name_pkgs(d, names) ==
    LET rows == get_pkgs_by_name(d, names)
    IN IF names = <<>> THEN DbReturn("Ok", <<>>)
       ELSE IF \E k \in 1..Len(rows) : pkg_of(rows[k]).status = "Err"
       THEN DbReturn("Err", <<>>)
       ELSE DbReturn("Ok", [k \in 1..Len(rows) |-> pkg_of(rows[k]).pkg])

\* the lists of at most two elements of S
ShortLists(S) == UNION {[1..k -> S] : k \in 0..2}

DbCall(op, pkgs, bridge, names) ==
    [op |-> op, pkgs |-> pkgs, bridge |-> bridge, names |-> names]

\* Db::new on a path without a table: the table is created empty
DbInit ==
    /\ NoMain /\ NoInvoke /\ disk = {} /\ NoDirs
    /\ arg = DbCall("new", <<>>, "", <<>>)
    /\ ret = DbReturn("Ok", <<>>)

DbStatics == UNCHANGED <<input_bridges, command, db0, pc, bi, jobs, ji, pi,
                         installed_pkgs_in_input, not_installed_pkgs_in_input,
                         installed_pkgs_not_in_input, env_pkg_path, trail, calls,
                         invokevars, dirvars>>

DbInstallBridgePkgs ==
    /\ \E pkgs \in ShortLists(DbPkgs) \ {<<>>}, bridge \in DbBridges :
       \E fails_at \in 0..Len(pkgs) :
          LET r == install_bridge_pkgs_loop(db, pkgs, bridge, fails_at)
          IN /\ db' = r.db
             /\ arg' = DbCall("install_bridge_pkgs", pkgs, bridge, <<>>)
             /\ ret' = DbReturn(r.status, <<>>)
    /\ DbStatics

\* Db::remove_pkgs: the `for pkg_name in pkgs_names` loop; the statement
\* number fails_at fails (0: none does) and the names before it are deleted
DbRemovePkgs ==
    /\ \E names \in ShortLists(PkgNames) :
       \E fails_at \in 0..Len(names) :
          /\ db' = IF fails_at = 0 THEN remove_pkgs(db, names)
                   ELSE remove_pkgs(db, SubSeq(names, 1, fails_at - 1))
          /\ arg' = DbCall("remove_pkgs", <<>>, "", names)
          /\ ret' = DbReturn(IF fails_at = 0 THEN "Ok" ELSE "Err", <<>>)
    /\ DbStatics

DbGetPkgsByName ==
    /\ \E names \in ShortLists(PkgNames) :
          /\ arg' = DbCall("get_pkgs_by_name", <<>>, "", names)
          /\ ret' = get_pkgs_by_name_pkgs(db, names)
    /\ db' = db
    /\ DbStatics

DbNext ==
    \/ DbInstallBridgePkgs
    \/ DbRemovePkgs
    \/ DbGetPkgsByName

DbSpec == DbInit /\ [][DbNext]_vars

\* ------------------------------------------------ runs that succeed
\* The runs of Spec in which nothing fails: every loop body ends with its
\* package installed or removed, that is every bridge call, every placement
\* and every statement on the record store succeeded.
LastBodySucceeded ==
    \/ trail = <<>>
    \/ /\ trail[Len(trail)].ev = "finish"
       /\ trail[Len(trail)].res \in {"installed", "removed"}

SucceedNext ==
    \/ StartBridge
    \/ InstallJob /\ LastBodySucceeded'
    \/ UpdateJob /\ LastBodySucceeded'
    \/ RemoveJob /\ LastBodySucceeded'
    \/ ReinstallJob /\ LastBodySucceeded'
    \/ Link

SucceedSpec == Init /\ [][SucceedNext]_vars

\* =============================================================== claims
Recorded(d, n) == \E r \in Range(d) : r.name = n

RowsOf(d, n) == {r \in Range(d) : r.name = n}

DbEvents == {"db.remove_pkgs", "db.install_bridge_pkgs"}

FsEvents == {"fs.store_or_overwrite", "fs.remove_pkgs"}

BridgeEvents == {"bridge.install", "bridge.update", "bridge.remove"}

\* the state right after StartBridge reconciled the current bridge
JustFiltered == pc = "pkg" /\ trail = <<>>

IsPrefix(s, t) == Len(s) <= Len(t) /\ \A k \in 1..Len(s) : s[k] = t[k]

\* the packages of the calls made for bridge group i under a job, in call order
CalledPkgs(i, job) ==
    LET cs == SelectSeq(calls, LAMBDA c : c.bridge = i /\ c.job = job /\ c.op # "remove")
    IN [k \in 1..Len(cs) |-> cs[k].pkg]

\* C1: when the bridge invocation, the placement or the record write fails
\* for one package, the run does not abort (only that package is abandoned).
C1_FailureIsolation ==
    (\E k \in 1..Len(trail) : trail[k].res = "Err")
        => pc \notin {"aborted", "panicked"}

\* C2: an Install invocation that exits with a non-zero status is reported
\* as a failure, writes no record and leaves the record store as it was.
C2_FailedInstallWritesNothing ==
    [][ (/\ Len(trail') > 0
         /\ trail'[1].ev = "bridge.install"
         /\ trail'[1].code \in {"1", "2"}
         /\ calls' # calls)
        => /\ db' = db
           /\ trail'[Len(trail')].res \in {"at bridge operation", "Err"}
           /\ \A k \in 1..Len(trail') : trail'[k].ev \notin DbEvents ]_vars

C2_Witness ==
    /\ pc = "pkg"
    /\ Len(trail) > 0
    /\ trail[1].ev = "bridge.install" /\ trail[1].code = "1"
    /\ trail[Len(trail)].res = "at bridge operation"
    /\ db # <<>>
    /\ Len(calls) > 0 /\ ~Recorded(db, calls[Len(calls)].pkg)

\* C3: no insert or delete on the record store is executed for a package
\* before its bridge call and its filesystem step have both succeeded.
C3_DbAfterBridgeAndFs ==
    \A k \in 1..Len(trail) :
        trail[k].ev \in DbEvents =>
            /\ \A j \in 1..(k - 1) : trail[j].ev \in BridgeEvents => trail[j].res = "Ok"
            /\ \E j \in 1..(k - 1) : trail[j].ev \in BridgeEvents
            /\ \E j \in 1..(k - 1) : trail[j].ev \in FsEvents /\ trail[j].res = "Ok"

\* C4: reconciliation puts every declared package without a record into
\* toInstall, and into neither toUpdate nor toRemove (for every bridge group
\* and every content of the record store).
C4_UnrecordedGoesToInstall ==
    /\ \A i \in 1..Len(input_bridges) :
         LET g == input_bridges[i]
             f == filter_pkgs_by_statuses(db, g.pkgs, g.pkgs, g.name)
         IN \A n \in Range(g.pkgs) :
              ~Recorded(db, n) =>
                  /\ n \in Range(f.toInstall)
                  /\ n \notin Range(f.toUpdate)
                  /\ n \notin Range(f.toRemove)
    /\ JustFiltered =>
         \A n \in Range(input_bridges[bi].pkgs) :
              ~Recorded(db, n) =>
                  /\ n \in Range(not_installed_pkgs_in_input)
                  /\ n \notin Range(installed_pkgs_in_input)
                  /\ n \notin Range(installed_pkgs_not_in_input)

C4_Witness ==
    /\ JustFiltered
    /\ db # <<>>
    /\ \E n \in Range(input_bridges[bi].pkgs) :
          ~Recorded(db, n) /\ n \in Range(not_installed_pkgs_in_input)

\* C5: toRemove of a bridge is exactly the records owned by that bridge
\* whose name is not declared in its group.
C5_ToRemoveExact ==
    /\ \A i \in 1..Len(input_bridges) :
         LET g == input_bridges[i]
             f == filter_pkgs_by_statuses(db, g.pkgs, g.pkgs, g.name)
         IN /\ Range(f.toRemove) =
                 {r.name : r \in {x \in Range(db) :
                                     x.bridge = g.name /\ x.name \notin Range(g.pkgs)}}
            /\ \A a, b \in 1..Len(f.toRemove) : f.toRemove[a] = f.toRemove[b] => a = b
    /\ JustFiltered =>
         Range(installed_pkgs_not_in_input) =
             {r.name : r \in {x \in Range(db) :
                                 /\ x.bridge = input_bridges[bi].name
                                 /\ x.name \notin Range(input_bridges[bi].pkgs)}}

C5_Witness ==
    /\ JustFiltered
    /\ installed_pkgs_not_in_input # <<>>
    /\ \E r \in Range(db) :
          r.bridge # input_bridges[bi].name /\ r.name \notin Range(input_bridges[bi].pkgs)

\* C6: toUpdate is exactly the declared packages that have a record, in
\* declaration order (which_pkgs_are_installed returns the queried names
\* that have a record, in query order), and toInstall and toUpdate
\* partition the declared packages of the bridge.
C6_ToUpdateExactAndPartition ==
    /\ \A i \in 1..Len(input_bridges) :
         LET g == input_bridges[i]
             f == filter_pkgs_by_statuses(db, g.pkgs, g.pkgs, g.name)
             recorded == SelectSeq(g.pkgs, LAMBDA n : Recorded(db, n))
         IN /\ f.toUpdate = recorded
            /\ which_pkgs_are_installed(db, g.pkgs) = recorded
            /\ \A n \in Range(g.pkgs) :
                 (n \in Range(f.toInstall)) # (n \in Range(f.toUpdate))
            /\ Range(f.toInstall) \cup Range(f.toUpdate) = Range(g.pkgs)
            /\ Len(f.toInstall) + Len(f.toUpdate) = Len(g.pkgs)
    /\ (JustFiltered /\ command.kind # "Update") =>
         /\ installed_pkgs_in_input =
               SelectSeq(input_bridges[bi].pkgs, LAMBDA n : Recorded(db, n))
         /\ Len(installed_pkgs_in_input) + Len(not_installed_pkgs_in_input)
               = Len(input_bridges[bi].pkgs)

C6_Witness ==
    /\ JustFiltered
    /\ installed_pkgs_in_input # <<>>
    /\ not_installed_pkgs_in_input # <<>>

JobRank(order, job) == CHOOSE k \in 1..Len(order) : order[k] = job

\* the calls of one bridge follow the given job order, and each job walks
\* its own list from the front
FollowsJobOrder(order) ==
    /\ \A k \in 1..Len(calls) : calls[k].job \in Range(order)
    /\ \A a, b \in 1..Len(calls) :
         (a < b /\ calls[a].bridge = calls[b].bridge)
             => JobRank(order, calls[a].job) <= JobRank(order, calls[b].job)

WalksOwnLists ==
    pc = "pkg" =>
        /\ IsPrefix(CalledPkgs(bi, "Install"), not_installed_pkgs_in_input)
        /\ IsPrefix(CalledPkgs(bi, "Update"), installed_pkgs_in_input)
        /\ IsPrefix(CalledPkgs(bi, "Reinstall"), installed_pkgs_in_input)
        /\ LET rm == SelectSeq(calls, LAMBDA c : c.bridge = bi /\ c.job = "Remove")
           IN IsPrefix([k \in 1..Len(rm) |-> rm[k].pkg], installed_pkgs_not_in_input)

\* C7: in Build mode the invocations of one bridge come in the job order
\* Install, Remove without the update flag (and no Update is invoked), and
\* Update, Install, Remove with it; each job invokes the packages of its list.
C7_BuildJobOrder ==
    command.kind = "Build" =>
        /\ FollowsJobOrder(<<"Update", "Install", "Remove">>)
        /\ ~command.update =>
              \A k \in 1..Len(calls) :
                  calls[k].job # "Update" /\ calls[k].op # "update"
        /\ \A k \in 1..Len(calls) :
              calls[k].op = (CASE calls[k].job = "Update" -> "update"
                               [] calls[k].job = "Install" -> "install"
                               [] calls[k].job = "Remove" -> "remove")
        /\ WalksOwnLists

C7_Witness ==
    /\ command.kind = "Build" /\ command.update
    /\ pc = "done"
    /\ \E a, b \in 1..Len(calls) :
          /\ a < b /\ calls[a].bridge = calls[b].bridge
          /\ calls[a].job = "Update" /\ calls[b].job = "Install"
    /\ \E b \in 1..Len(calls) : calls[b].job = "Remove"

\* C8 as claimed: in Rebuild mode every Reinstall of a bridge comes before
\* any Install and any Remove of that bridge.
C8_ReinstallFirst ==
    command.kind = "Rebuild" => FollowsJobOrder(<<"Reinstall", "Install", "Remove">>)

\* C8 amended: in Rebuild mode the jobs of one bridge run in the order
\* Install(toInstall), Remove(toRemove), Reinstall(toUpdate).
C8_RebuildJobOrder ==
    command.kind = "Rebuild" =>
        /\ FollowsJobOrder(<<"Install", "Remove", "Reinstall">>)
        /\ WalksOwnLists

C8_Witness ==
    /\ command.kind = "Rebuild"
    /\ pc = "done"
    /\ \E a, b \in 1..Len(calls) :
          /\ a < b /\ calls[a].bridge = calls[b].bridge
          /\ calls[a].job = "Install" /\ calls[b].job = "Reinstall"

\* the packages Update mode has to update in bridge group i: the declared
\* ones that had a record when the run started, narrowed to the subset
UpdateTargets(i) ==
    SelectSeq(input_bridges[i].pkgs, LAMBDA n :
        Recorded(db0, n) /\ (command.some => n \in command.packages))

\* C9: in Update mode only Update jobs run, on exactly the recorded declared
\* packages that the subset names (all of them without a subset); no Install
\* or Remove is invoked and the records of all other packages stay as they were.
C9_UpdateOnlySubset ==
    command.kind = "Update" =>
        /\ \A k \in 1..Len(calls) : calls[k].job = "Update" /\ calls[k].op = "update"
        /\ \A i \in 1..Len(input_bridges) : IsPrefix(CalledPkgs(i, "Update"), UpdateTargets(i))
        /\ pc \in {"link", "done", "exit1"} =>
              \A i \in 1..Len(input_bridges) : CalledPkgs(i, "Update") = UpdateTargets(i)
        /\ \A n \in PkgNames :
              (\A k \in 1..Len(calls) : calls[k].pkg # n) => RowsOf(db, n) = RowsOf(db0, n)
        /\ \A n \in PkgNames :
              (\A i \in 1..Len(input_bridges) : n \notin Range(UpdateTargets(i)))
                  => RowsOf(db, n) = RowsOf(db0, n)

C9_Witness ==
    /\ command.kind = "Update" /\ command.some
    /\ pc = "done"
    /\ Len(calls) = 1
    /\ db # db0
    /\ \E i \in 1..Len(input_bridges) :
       \E n \in Range(input_bridges[i].pkgs) :
          Recorded(db0, n) /\ n \notin command.packages

DeclIndex(i, n) == CHOOSE k \in 1..Len(input_bridges[i].pkgs) : input_bridges[i].pkgs[k] = n

\* C10: bridge groups are processed in declaration order, and the Install
\* and Update jobs invoke their packages in the order of the declaration.
C10_DeclarationOrder ==
    \A a, b \in 1..Len(calls) :
        a < b =>
            /\ calls[a].bridge <= calls[b].bridge
            /\ ( /\ calls[a].bridge = calls[b].bridge
                 /\ calls[a].job = calls[b].job
                 /\ calls[a].job \in {"Install", "Update"} )
               => DeclIndex(calls[a].bridge, calls[a].pkg)
                     < DeclIndex(calls[b].bridge, calls[b].pkg)

C10_Witness ==
    /\ \E a, b \in 1..Len(calls) :
          /\ a < b /\ calls[a].bridge = calls[b].bridge
          /\ calls[a].job = "Install" /\ calls[b].job = "Install"
          /\ calls[a].pkg > calls[b].pkg
    /\ pc \in {"bridge", "link"}

\* the lists StartBridge would produce for the current bridge from the rows d
ListsFrom(d) ==
    LET g == input_bridges[bi]
        f == filter_pkgs_by_statuses(d, g.pkgs, g.pkgs, g.name)
    IN <<NarrowToUpdate(command, f.toUpdate), f.toInstall, f.toRemove>>

CurrentLists ==
    <<installed_pkgs_in_input, not_installed_pkgs_in_input, installed_pkgs_not_in_input>>

\* C11 as claimed: the job lists of every bridge are derived from the rows
\* the record store had before the first job of the run; what earlier
\* bridges changed does not change the lists of a later bridge.
C11_OneSnapshot == JustFiltered => CurrentLists = ListsFrom(db0)

\* C11 amended: the job lists of a bridge are derived from the record store
\* as it is when that bridge's turn begins, after the jobs of every earlier
\* bridge have run.
C11_ListsFromLiveStore == JustFiltered => CurrentLists = ListsFrom(db)

C11_Witness ==
    /\ JustFiltered
    /\ bi = 2
    /\ db # db0
    /\ CurrentLists # ListsFrom(db0)
    /\ \E n \in Range(not_installed_pkgs_in_input) : Recorded(db0, n)

\* what the spec calls a request for the default behaviour
DefaultRequested(out) ==
    out.spawned /\ out.code = "1" /\ trim(out.stderr) = Sentinel

HasStep(ev) == \E k \in 1..Len(steps) : steps[k].ev = ev

RecordPath(name) == get_pkgs_by_name(db, <<name>>)[1].path

\* C12: after run_operation returns, on every return path, no environment
\* variable named by an attribute key of the declaration is set.
C12_AttributeVarsCleared ==
    ipc = "returned" => \A k \in keys(call.attributes) : env[k] = NotSet

C12_Witness ==
    /\ ipc = "returned"
    /\ result.error = "BridgeFailedToOpenLogFile"
    /\ keys(call.attributes) = AttrKeys
    /\ Len(child_env) = 1
    /\ \A k \in AttrKeys : child_env[1][k] # NotSet

\* C13: after a call that marshalled the environment returns, every variable
\* the marshalling set is unset: each attribute variable, pkg_log_file, and
\* pkg_path for an Update or Remove of a recorded package.
C13_TeardownUnsetsAll ==
    (ipc = "returned" /\ Len(child_env) > 0) =>
        /\ \A k \in keys(call.attributes) : env[k] = NotSet
        /\ env["pkg_log_file"] = NotSet
        /\ (call.operation \in {"update", "remove"} /\ HasRecord(db, call.name))
              => env["pkg_path"] = NotSet

\* C14: while the subprocess of a call runs, its environment holds each
\* attribute under its key with the value as a string, pkg_log_file with the
\* log path of the bridge, and, for Update and Remove of a recorded package,
\* pkg_path with the path of the record.
C14_ChildEnvironment ==
    ipc = "running" =>
        LET e == child_env[1]
            a == call.attributes
        IN /\ \A k \in keys(a) : e[k] = to_string(a[k])
           /\ a["jobs"] = AttributeValue("Integer", 12) => e["jobs"] = <<"1", "2">>
           /\ a["jobs"] = AttributeValue("Integer", 0 - 3) => e["jobs"] = <<"-", "3">>
           /\ a["static"] = AttributeValue("Boolean", 1) => e["static"] = <<"true">>
           /\ a["static"] = AttributeValue("Float", 25) => e["static"] = <<"2", ".", "5">>
           /\ a["repo"] = AttributeValue("String", 1) => e["repo"] = <<StringTable[1]>>
           /\ e["pkg_log_file"] = LogFile(call.bridge_name)
           /\ (call.operation \in {"update", "remove"} /\ HasRecord(db, call.name))
                 => e["pkg_path"] = RecordPath(call.name)

C14_Witness ==
    /\ ipc = "running"
    /\ call.operation = "update" /\ HasRecord(db, call.name)
    /\ keys(call.attributes) = {"jobs", "static"}
    /\ child_env[1]["pkg_path"] = RecordPath(call.name)
    /\ child_env[1]["static"] = <<"2", ".", "5">>
    /\ result = NoResult

\* C15: the subprocess of an Install call never sees a pkg_path set by the
\* engine, whatever calls came before.
C15_InstallSeesNoPkgPath ==
    (ipc = "running" /\ call.operation = "install") => child_env[1]["pkg_path"] = NotSet

\* C16: a Remove call whose plugin exits with code 0 succeeds, and the
\* orchestrator goes on to the removal of the managed copy and of the record.
C16_RemoveExitZeroSucceeds ==
    \A k \in 1..Len(trail) :
        (trail[k].ev = "bridge.remove" /\ trail[k].code = "0") =>
            /\ trail[k].res = "Ok"
            /\ Len(trail) > k
            /\ trail[k + 1].ev \in {"fs.remove_pkgs", "db.remove_pkgs"}

\* C17: a Remove call answered with exit code 1 and the sentinel deletes
\* pkg_path, and the removed result is true exactly when the path existed.
C17_RemovedIffExisted ==
    (ipc = "returned" /\ call.operation = "remove" /\ result.status = "Ok") =>
        \E k \in 1..Len(steps) :
            /\ steps[k].ev = "default_impls::remove"
            /\ steps[k].path \notin disk
            /\ remove(result).removed = steps[k].existed

\* C18: an Update call answered with exit code 1 and the sentinel first
\* performs the default removal of pkg_path and only then spawns the same
\* entry point with `install` and the same input; what that subprocess gives
\* (the parsed package, or its failure) is what the Update call returns.
C18_UpdateFallback ==
    ( /\ ipc \in {"running_install", "returned"}
      /\ call.operation = "update"
      /\ Len(steps) >= 2 /\ steps[2].ev = "exit"
      /\ DefaultRequested(steps[2].out) )
    => \/ /\ ipc = "returned" /\ Len(steps) = 2
          /\ result.status = "Err" /\ result.error = "IoError"
          /\ ~HasStep("default_impls::remove")
       \/ /\ Len(steps) >= 4
          /\ steps[3].ev = "default_impls::remove"
          /\ steps[3].path \notin disk
          /\ HasRecord(db, call.name) => steps[3].path = RecordPath(call.name)
          /\ steps[4] = Spawned(call.bridge_name, "install", call.name)
          /\ steps[4].args[1] = steps[1].args[1] /\ steps[4].args[3] = steps[1].args[3]
          /\ ipc = "running_install" => Len(steps) = 4
          /\ ipc = "returned" =>
                /\ Len(steps) = 5 /\ steps[5].ev = "exit"
                /\ IF steps[5].out.spawned
                   THEN result = ParsedResult(steps[5].out, call.bridge_name, call.name)
                   ELSE result.status = "Err"

C18_Witness ==
    /\ ipc = "returned"
    /\ call.operation = "update"
    /\ Len(steps) = 5
    /\ steps[3].ev = "default_impls::remove" /\ steps[3].existed
    /\ steps[5].out.spawned /\ steps[5].out.code = "0"
    /\ result.status = "Ok"

\* C19: the install subprocess of the Update fallback sees every attribute
\* of the declaration with the value the update subprocess saw.
C19_FallbackSeesAttributes ==
    ipc = "running_install" =>
        \A k \in keys(call.attributes) : child_env[2][k] = child_env[1][k]

JobFinished(msg) ==
    /\ pc = "next" /\ Len(trail) > 0
    /\ trail[Len(trail)].ev = "finish" /\ trail[Len(trail)].res = msg

JobRows == get_pkgs_by_name(db, <<CurrentPkg>>)

\* C25: after a successful Install or Update job of package P under bridge
\* B the record store holds exactly one record named P: its version is the
\* one of the plugin output, its path the path placement gave the artifact
\* (where the artifact now is), its type the one the output selected (a
\* third field: Directory, with the entry point inside the new path), and
\* its bridge B; the record an Update found is gone.
C25_RecordAfterInstallOrUpdate ==
    (/\ Len(jobs) = 1 /\ jobs[1] \in {"Install", "Update"}
     /\ JobFinished("installed"))
    => /\ Len(JobRows) = 1
       /\ JobRows[1].version = NewVersion
       /\ JobRows[1].path = TargetPath(BridgeName(1), CurrentPkg)
       /\ JobRows[1].path \in disk
       /\ JobRows[1].bridge = BridgeName(1)
       /\ IF trail[1].stdout = "valid_dir"
          THEN /\ JobRows[1].pkg_type = "Directory"
               /\ JobRows[1].entry_point =
                      TargetPath(BridgeName(1), CurrentPkg) \o <<"bin">>
          ELSE /\ JobRows[1].pkg_type = "SingleExecutable"
               /\ JobRows[1].entry_point = JobRows[1].path

\* an Update whose output named an entry point replaced the record
C25_Witness ==
    /\ Len(jobs) = 1 /\ jobs[1] = "Update"
    /\ JobFinished("installed")
    /\ trail[1].stdout = "valid_dir"
    /\ Len(JobRows) = 1 /\ JobRows[1].pkg_type = "Directory"

\* ---------------------------------------------------------------- C26
\* the managed copy placement stored for the package of a Remove job
ManagedCopy == TargetPath(BridgeName(1), CurrentPkg)

\* C26: in a Remove job, once the call of the bridge has succeeded the
\* managed copy of the package is not on disk any more, and the record of
\* the package is deleted only after Fs::remove_pkgs succeeded and with the
\* copy gone.
C26_CopyGoneThenRecord ==
    (Len(jobs) = 1 /\ jobs[1] = "Remove")
    => /\ (Len(trail) > 0 /\ trail[1].ev = "bridge.remove" /\ trail[1].res = "Ok")
          => ManagedCopy \notin disk
       /\ ~HasRecord(db, CurrentPkg)
          => /\ ManagedCopy \notin disk
             /\ Len(trail) >= 2
             /\ trail[2].ev = "fs.remove_pkgs" /\ trail[2].res = "Ok"

\* a Remove job that went through: the copy and the record are gone
C26_Witness ==
    /\ Len(jobs) = 1 /\ jobs[1] = "Remove"
    /\ JobFinished("removed")
    /\ ~HasRecord(db, CurrentPkg)
    /\ ManagedCopy \notin disk

\* ---------------------------------------------------------------- C27
\* C27: in a Reinstall, a failure of the deletion of the prior record is
\* reported and the package goes on (the run is not ended by it), and after
\* a Reinstall that succeeded in every step the record store holds exactly
\* one record of the package: the one of the new install, under the bridge.
C27_ReinstallRecordsOnce ==
    (Len(jobs) = 1 /\ jobs[1] = "Reinstall")
    => /\ \A k \in 1..Len(trail) :
             (trail[k].ev = "db.remove_pkgs" /\ trail[k].res = "Err")
             => /\ pc \notin {"aborted", "panicked"}
                /\ k < Len(trail)
                /\ trail[k + 1].res = "at remove pkg from db"
       /\ JobFinished("installed")
          => /\ Len(JobRows) = 1
             /\ JobRows[1].version = NewVersion
             /\ JobRows[1].path = TargetPath(BridgeName(1), CurrentPkg)
             /\ JobRows[1].bridge = BridgeName(1)
             /\ \A k \in 1..Len(trail) : trail[k].res # "Err"

\* a Reinstall that succeeded in every step
C27_Witness ==
    /\ Len(jobs) = 1 /\ jobs[1] = "Reinstall"
    /\ JobFinished("installed")
    /\ Len(trail) = 6
    /\ Len(JobRows) = 1 /\ JobRows[1].version = NewVersion

\* ---------------------------------------------------------------- C28
\* C28: a run of Build, Rebuild or Update never leaves main before the
\* link-farm rebuild: whatever the packages' outcomes were, the run comes
\* to perform_linking.  (A panic is not an outcome of a package.)
C28_AlwaysLinks == pc # "aborted"

\* ---------------------------------------------------------------- C22
LogErrors == {"BridgeFailedToCreateLogFile", "BridgeFailedToOpenLogFile"}

\* C22: a failure to create, open or write the log file of the bridge never
\* changes what run_operation returns: no call returns a logging error in
\* place of the result of the subprocess.
C22_LoggingNeverFailsTheCall ==
    ipc = "returned" => result.error \notin LogErrors

\* ---------------------------------------------------------------- C23
SpawnSteps == {k \in 1..Len(steps) : steps[k].ev = "spawn"}

\* C23: a call that came to the environment setup and returned (the log being
\* writable) has cleared the attribute variables and has appended one frame
\* of its package for every subprocess it spawned or tried to spawn: also
\* after a failed spawn, and also for the install subprocess of the Update
\* fallback.
C23_FrameForEverySpawn ==
    (ipc = "returned" /\ Len(child_env) > 0 /\ result.error \notin LogErrors)
    => /\ \A k \in keys(call.attributes) : env[k] = NotSet
       /\ Len(log_frames) = Cardinality(SpawnSteps)
       /\ \A k \in 1..Len(log_frames) : log_frames[k].name = call.name

\* ---------------------------------------------------------------- C24
\* C24: every subprocess runs in a working directory of its own, of the form
\* <workRoot>/<bridge>/<package>/<token>, that exists and that no earlier
\* subprocess of the run ran in: also the install subprocess of the Update
\* fallback.
C24_WorkingDirNeverReused ==
    /\ \A k \in 1..Len(spawn_dirs) :
          /\ spawn_dirs[k] \in disk
          /\ \E b \in Range(DeclaredBridges), n \in PkgNames, t \in 0..(MaxClock + 1) :
                spawn_dirs[k] = WorkDir(b, n, t)
    /\ \A i, j \in 1..Len(spawn_dirs) : i # j => spawn_dirs[i] # spawn_dirs[j]

\* ---------------------------------------------------------------- C21
\* the first line of the stdout under evaluation, as the parser reads it
FirstLine == trim(arg.stdout[1])

Commas == {i \in 1..Len(FirstLine) : FirstLine[i] = ","}

\* the text between the first comma and the second one (or the end)
VersionText ==
    LET first == CHOOSE i \in Commas : \A j \in Commas : i <= j
        later == {i \in Commas : i > first}
        stop == IF later = {} THEN Len(FirstLine) + 1
                ELSE CHOOSE i \in later : \A j \in later : i <= j
    IN SubSeq(FirstLine, first + 1, stop - 1)

\* the text after the last comma
LastText ==
    LET last == CHOOSE i \in Commas : \A j \in Commas : j <= i
    IN SubSeq(FirstLine, last + 1, Len(FirstLine))

Dots(text) == Cardinality({i \in 1..Len(text) : text[i] = "."})

\* C21: for a subprocess that exited with code 0 and printed a first line,
\* a line with no comma or with more than two commas is a wrong-output
\* failure; otherwise a second field with other than two dots is a
\* version-format failure; otherwise the parse fails for no reason of
\* format, and its result has the three pieces of the second field as the
\* version, Directory with the third field as entry point when there is a
\* third field and SingleExecutable when there is none.
C21_FirstLineFields ==
    (ret.status # "none" /\ arg.success /\ arg.stdout # <<>>)
    => IF Cardinality(Commas) \notin {1, 2}
       THEN ret.status = "Err" /\ ret.error = "BridgeWrongOutput"
       ELSE IF Dots(VersionText) # 2
       THEN ret.status = "Err" /\ ret.error = "BridgeWrongVersionFormat"
       ELSE /\ ret.error \notin {"BridgeWrongOutput", "BridgeWrongVersionFormat"}
            /\ (arg.path_exists /\ arg.entry_exists) => ret.status = "Ok"
            /\ ret.status = "Ok"
               => /\ Len(ret.version) = 3
                  /\ \A k \in 1..3 : Dots(ret.version[k]) = 0
                  /\ (ret.version[1] \o <<".">> \o ret.version[2] \o <<".">>
                         \o ret.version[3]) = VersionText
                  /\ ret.pkg_type = IF Cardinality(Commas) = 2 THEN "Directory"
                                    ELSE "SingleExecutable"
                  /\ Cardinality(Commas) = 2 => ret.entry_point = Joined(LastText)

\* `1,1.1.1,1` written with white space around it gives version 1.1.1 and
\* a Directory
C21_Witness ==
    /\ ret.status = "Ok"
    /\ arg.stdout = << <<" ", "1", ",", "1", ".", "1", ".", "1", ",", "1", " ">> >>
    /\ ret.version = << <<"1">>, <<"1">>, <<"1">> >>
    /\ ret.pkg_type = "Directory"
    /\ ret.entry_point = Joined(<<"1">>)

\* ---------------------------------------------------------------- C29
\* C29: when the load path is an existing directory or does not exist, link()
\* succeeds and the load path then holds exactly one link per record, to the
\* path of a SingleExecutable and to the entry point of a Directory, and no
\* other link; a second run on the result gives the same links.
C29_LinkRebuildsFromRecords ==
    (ret.status # "none" /\ arg.load_path \in {"absent", "dir"})
    => /\ ret.status = "Ok"
       /\ ret.links = {<<arg.rows[k].name, LinkTarget(arg.rows[k])>> :
                          k \in 1..Len(arg.rows)}
       /\ link([arg EXCEPT !.load_path = "dir", !.links = ret.links]).status = "Ok"
       /\ link([arg EXCEPT !.load_path = "dir", !.links = ret.links]).links = ret.links

\* ---------------------------------------------------------------- C30
\* the entries whose file name is a needed bridge name
NeededContent ==
    SelectSeq(arg.content,
              LAMBDA e : \E k \in 1..Len(arg.needed_bridges) :
                            FileName(e) = <<arg.needed_bridges[k], "">>)

\* C30: discovery fails with BridgeEntryPointNotExecutable when the directory
\* of a needed bridge has a `run` file without an executable bit, and the
\* subdirectories whose name is not a needed name change nothing: the result
\* is the one discovery gives without them.
C30_OnlyNeededCandidates ==
    ret.status # "none"
    => /\ (\E k \in 1..Len(NeededContent) : NeededContent[k].run = "not_executable")
          => ret.error = "BridgeEntryPointNotExecutable"
       /\ ret = load_bridges(NeededContent, arg.needed_bridges)

\* ---------------------------------------------------------------- C31
\* the subdirectory named b holds a `run` file
HasRunFile(b) ==
    \E k \in 1..Len(arg.content) :
        /\ FileName(arg.content[k]) = <<b, "">>
        /\ arg.content[k].run \in {"executable", "not_executable"}

\* the needed names without such a subdirectory, in the order of the needed list
MissingNames == SelectSeq(arg.needed_bridges, LAMBDA b : ~HasRunFile(b))

\* C31: when the scan ends without an error and some needed name has no
\* subdirectory of that name containing a `run` file, discovery fails with
\* BridgeNotFound naming the first such name of the needed list and returns
\* no bridge; otherwise it succeeds.
C31_FirstMissingNamed ==
    (ret.status # "none" /\ ret.error # "BridgeEntryPointNotExecutable")
    => IF MissingNames # <<>>
       THEN ret = Loaded("Err", "BridgeNotFound", <<MissingNames[1]>>, <<>>)
       ELSE ret.status = "Ok"

\* ---------------------------------------------------------------- C32
\* C32: a run whose discovery failed (bridge set path missing or not a
\* directory, needed bridge absent, entry point not executable) ends there:
\* no bridge call is made, no loop body runs and the record store holds the
\* rows the run started with.
C32_DiscoveryErrorAbortsRun ==
    (ret.status = "Err")
    => /\ pc = "discovery_failed"
       /\ calls = <<>>
       /\ trail = <<>>
       /\ db = db0

C32_Witness ==
    /\ ret.status = "Err" /\ ret.error = "BridgeNotFound"
    /\ pc = "discovery_failed"
    /\ \E i \in 1..Len(input_bridges) : input_bridges[i].pkgs # <<>>
    /\ db # <<>>

\* ---------------------------------------------------------------- C33
\* no two rows of the table have the same name
UniqueNames(d) == \A i, j \in 1..Len(d) : d[i].name = d[j].name => i = j

\* the rows of name n, in table order
RowsNamed(d, n) == SelectSeq(d, LAMBDA r : r.name = n)

\* C33: after any sequence of operations on the record store no two records
\* share a name, and an install_bridge_pkgs call given a package whose name
\* already has a record returns an error and leaves that record as it was.
C33_NamesUnique ==
    /\ [](UniqueNames(db))
    /\ [][arg'.op = "install_bridge_pkgs"
          => \A k \in 1..Len(arg'.pkgs) :
                HasRecord(db, arg'.pkgs[k].name)
                => /\ ret'.status = "Err"
                   /\ RowsNamed(db', arg'.pkgs[k].name)
                         = RowsNamed(db, arg'.pkgs[k].name)]_vars

C33_Witness ==
    /\ arg.op = "install_bridge_pkgs" /\ ret.status = "Err"
    /\ Len(arg.pkgs) = 2
    /\ Len(db) = 2
    /\ \E r \in Range(db) :
          /\ r.name = arg.pkgs[2].name
          /\ r # row_of(arg.pkgs[2], arg.bridge)
    /\ db[2] = row_of(arg.pkgs[1], arg.bridge)

\* ---------------------------------------------------------------- C34
\* C34: after install_bridge_pkgs succeeded, get_pkgs_by_name on the name of
\* each package written returns exactly one Pkg, equal to the one written
\* in name, version cells, path and package type, the entry point of a
\* Directory included.
C34_RecordRoundTrip ==
    (arg.op = "install_bridge_pkgs" /\ ret.status = "Ok")
    => \A k \in 1..Len(arg.pkgs) :
          get_pkgs_by_name_pkgs(db, <<arg.pkgs[k].name>>)
              = DbReturn("Ok", <<arg.pkgs[k]>>)

C34_Witness ==
    /\ arg.op = "install_bridge_pkgs" /\ ret.status = "Ok"
    /\ Len(arg.pkgs) = 2
    /\ arg.pkgs[1].pkg_type.kind = "Directory"
    /\ arg.pkgs[1].version = UnevenVersion
    /\ arg.pkgs[2].pkg_type.kind = "SingleExecutable"
    /\ Len(db) = 2

\* ---------------------------------------------------------------- C35
\* d is s without some of its rows, the others in the same order
IsKeptOf(d, s, gone) == d = SelectSeq(s, LAMBDA r : r.name \notin gone)

\* C35: a remove_pkgs call that succeeds deletes the rows whose name is
\* among the names given and no other row; a name without a row does not
\* make it fail or change anything, so that the same call made again leaves
\* the table as it is.  A call that fails deletes no row of a name it was
\* not given.
C35_RemoveExactlyNamed ==
    [][arg'.op = "remove_pkgs"
       => /\ ret'.status = "Ok"
             => /\ \A n \in Range(arg'.names) : ~HasRecord(db', n)
                /\ \A n \in PkgNames \ Range(arg'.names) :
                      RowsNamed(db', n) = RowsNamed(db, n)
                /\ IsKeptOf(db', db, Range(arg'.names))
                /\ remove_pkgs(db', arg'.names) = db'
          /\ \A n \in PkgNames \ Range(arg'.names) :
                RowsNamed(db', n) = RowsNamed(db, n)
          /\ (\A n \in Range(arg'.names) : ~HasRecord(db, n)) => db' = db]_vars

C35_Witness ==
    /\ arg.op = "remove_pkgs" /\ ret.status = "Ok"
    /\ arg.names # <<>>
    /\ Len(db) = NumPkgs - 1
    /\ \E r \in Range(db) : r.pkg_type = "Directory"

\* ---------------------------------------------------------------- C36
\* the bridge groups that declare the name n
DeclaredIn(n) == {i \in 1..Len(input_bridges) : n \in Range(input_bridges[i].pkgs)}

\* the record store mirrors the declarations
Synchronised(d) ==
    /\ \A n \in PkgNames : \A i \in DeclaredIn(n) :
          \E k \in 1..Len(d) : d[k].name = n /\ d[k].bridge = BridgeName(i)
    /\ \A k \in 1..Len(d) : DeclaredIn(d[k].name) # {}

\* C36: a Build run in which every loop body succeeded reaches the link step
\* with a record for every declared package, owned by the bridge group that
\* declares it, and with no record of a name that is not declared.
C36_BuildSynchronises ==
    (command.kind = "Build" /\ pc = "link") => Synchronised(db)

\* ---------------------------------------------------------------- C37
\* main.rs 143-208 on the rows d: the job a run of the command starts the
\* bridge group i with (0: the group has no job with packages)
FirstJobOn(d, i) ==
    LET bridge == input_bridges[i]
        f == filter_pkgs_by_statuses(d, bridge.pkgs, bridge.pkgs, bridge.name)
    IN NextJob(JobsOf(command), 0, NarrowToUpdate(command, f.toUpdate),
               f.toInstall, f.toRemove)

\* a run started on the rows d has no job with packages in any bridge
\* group, and so leaves the rows as they are
RunsNoJob(d) == \A i \in 1..Len(input_bridges) : FirstJobOn(d, i) = 0

\* C37: after a Build run without the update flag in which every loop body
\* succeeded, a second run of the same command on the same declarations has
\* no package to install and none to remove in any bridge group, and leaves
\* the record store unchanged.
C37_BuildIdempotent ==
    (command.kind = "Build" /\ ~command.update /\ pc = "link") => RunsNoJob(db)

\* ---------------------------------------------------------------- C38
\* the first subprocess of the call in progress asked for the default
\* behaviour
AskedDefault ==
    /\ call.operation \in {"update", "remove"}
    /\ Len(steps) >= 2 /\ steps[2].ev = "exit" /\ DefaultRequested(steps[2].out)

\* C38: the default removal of a call deletes the path of the record of the
\* package the call is about and nothing else; when the package has no
\* record it deletes nothing and the call does not panic.
C38_DefaultRemovesOwnPathOnly ==
    /\ \A k \in 1..Len(steps) :
          (steps[k].ev = "default_impls::remove" /\ steps[k].existed)
          => HasRecord(db, call.name) /\ steps[k].path = RecordPath(call.name)
    /\ (AskedDefault /\ ~HasRecord(db, call.name)) => ipc # "panicked"

\* ---------------------------------------------------------------- C39
\* C39: however a plugin subprocess ends, the engine does not crash, and an
\* Update or Remove subprocess killed by a signal (no exit code) makes the
\* bridge call return an error, the failure of that package.
C39_SignalIsAJobFailure ==
    /\ pc # "panicked"
    /\ \A k \in 1..Len(trail) :
          (trail[k].ev \in {"bridge.update", "bridge.remove"} /\ trail[k].code = NoCode)
          => trail[k].res = "Err"

\* ---------------------------------------------------------------- C40
\* C40: an Update whose bridge call returns an error (the failure reported
\* `at bridge operation`), also when the call fell back to the default
\* removal and install, leaves the records as they were and leaves the
\* artifact at the path of the package's record on disk.
C40_FailedUpdateKeepsPackage ==
    [][(pc = "job" /\ jobs[ji] = "Update" /\ result'.status = "Err")
       => /\ db' = db
          /\ \A k \in 1..Len(db) :
                (db[k].name = CurrentPkg /\ db[k].path \in disk) => db[k].path \in disk']_vars

============================================================================
